---- MODULE Spec2Model ----
(***************************************************************************)
(* TomatoPlan server: authentication and sessions (auth_service.py,        *)
(* routers/auth.py, routers/admin.py), the mutating request handlers       *)
(* (routers/chauffeurs.py, voyages.py, missions.py, sst.py, finance.py)    *)
(* and the WebSocket hub (services/websocket_manager.py).                  *)
(*                                                                         *)
(* A handler is a coroutine: it gives way to the other requests at every   *)
(* await that waits for the database, and one action of a handler is the   *)
(* code from one such await to the completion of the next.                 *)
(*                                                                         *)
(* Strings that the code transforms (usernames, entity codes) are          *)
(* sequences of one-character strings.  Instants are integers counted in   *)
(* minutes; NoTime stands for a NULL DateTime column.                      *)
(***************************************************************************)
EXTENDS Integers, Sequences, FiniteSets, TLC

(***************************************************************************)
(* Program constants                                                       *)
(***************************************************************************)
MAX_FAILED_ATTEMPTS == 5
LOCKOUT_DURATION_MINUTES == 15
access_token_expire_minutes == 480
auto_backup_hour == 2
backup_retention_days == 30

(***************************************************************************)
(* Bounds of the model                                                     *)
(***************************************************************************)
MaxTicks == 1
MaxRequests == 2
MaxSessions == 2
MaxConnections == 2
MaxMessages == 1
\* the seconds of a minute that the clock of the backup code tells apart,
\* the seconds that one turn of the background loop may take besides its
\* sleep, and the days the loop is followed
Resolution == 3
MaxWork == 1
MaxDays == 1

NoTime == -1
Procs == {1, 2}

(***************************************************************************)
(* Strings.  A str is the sequence of the code points of its characters:   *)
(* "Ab1" is <<65, 98, 49>>.  str.upper(), str.strip(), str.isupper(),      *)
(* str.islower(), str.isdigit() and str.isspace() are those of Python 3.11 *)
(* (Unicode 14.0) on every code point.                                     *)
(***************************************************************************)
\* str.isspace(): the white space of Unicode 14.0, the version of the
\* unicodedata of Python 3.11, as runs <<first, last, step>> of code points
WhitespaceRuns ==
    { <<9, 13, 1>>, <<28, 32, 1>>, <<133, 133, 1>>, <<160, 160, 1>>, <<5760, 5760, 1>>,
      <<8192, 8202, 1>>, <<8232, 8233, 1>>, <<8239, 8239, 1>>, <<8287, 8287, 1>>, <<12288, 12288, 1>> }

\* str.isdigit(): the code points whose Numeric_Type is Digit or Decimal
DigitRuns ==
    { <<48, 57, 1>>, <<178, 179, 1>>, <<185, 185, 1>>, <<1632, 1641, 1>>, <<1776, 1785, 1>>,
      <<1984, 1993, 1>>, <<2406, 2415, 1>>, <<2534, 2543, 1>>, <<2662, 2671, 1>>, <<2790, 2799, 1>>,
      <<2918, 2927, 1>>, <<3046, 3055, 1>>, <<3174, 3183, 1>>, <<3302, 3311, 1>>, <<3430, 3439, 1>>,
      <<3558, 3567, 1>>, <<3664, 3673, 1>>, <<3792, 3801, 1>>, <<3872, 3881, 1>>, <<4160, 4169, 1>>,
      <<4240, 4249, 1>>, <<4969, 4977, 1>>, <<6112, 6121, 1>>, <<6160, 6169, 1>>, <<6470, 6479, 1>>,
      <<6608, 6618, 1>>, <<6784, 6793, 1>>, <<6800, 6809, 1>>, <<6992, 7001, 1>>, <<7088, 7097, 1>>,
      <<7232, 7241, 1>>, <<7248, 7257, 1>>, <<8304, 8304, 1>>, <<8308, 8313, 1>>, <<8320, 8329, 1>>,
      <<9312, 9320, 1>>, <<9332, 9340, 1>>, <<9352, 9360, 1>>, <<9450, 9450, 1>>, <<9461, 9469, 1>>,
      <<9471, 9471, 1>>, <<10102, 10110, 1>>, <<10112, 10120, 1>>, <<10122, 10130, 1>>, <<42528, 42537, 1>>,
      <<43216, 43225, 1>>, <<43264, 43273, 1>>, <<43472, 43481, 1>>, <<43504, 43513, 1>>, <<43600, 43609, 1>>,
      <<44016, 44025, 1>>, <<65296, 65305, 1>>, <<66720, 66729, 1>>, <<68160, 68163, 1>>, <<68912, 68921, 1>>,
      <<69216, 69224, 1>>, <<69714, 69722, 1>>, <<69734, 69743, 1>>, <<69872, 69881, 1>>, <<69942, 69951, 1>>,
      <<70096, 70105, 1>>, <<70384, 70393, 1>>, <<70736, 70745, 1>>, <<70864, 70873, 1>>, <<71248, 71257, 1>>,
      <<71360, 71369, 1>>, <<71472, 71481, 1>>, <<71904, 71913, 1>>, <<72016, 72025, 1>>, <<72784, 72793, 1>>,
      <<73040, 73049, 1>>, <<73120, 73129, 1>>, <<92768, 92777, 1>>, <<92864, 92873, 1>>, <<93008, 93017, 1>>,
      <<120782, 120831, 1>>, <<123200, 123209, 1>>, <<123632, 123641, 1>>, <<125264, 125273, 1>>, <<127232, 127242, 1>>,
      <<130032, 130041, 1>> }

\* str.isupper() of one character: Lu and Other_Uppercase
UpperRuns ==
    { <<65, 90, 1>>, <<192, 214, 1>>, <<216, 222, 1>>, <<256, 310, 2>>, <<313, 327, 2>>,
      <<330, 376, 2>>, <<377, 381, 2>>, <<385, 386, 1>>, <<388, 390, 2>>, <<391, 393, 2>>,
      <<394, 395, 1>>, <<398, 401, 1>>, <<403, 404, 1>>, <<406, 408, 1>>, <<412, 413, 1>>,
      <<415, 416, 1>>, <<418, 422, 2>>, <<423, 425, 2>>, <<428, 430, 2>>, <<431, 433, 2>>,
      <<434, 435, 1>>, <<437, 439, 2>>, <<440, 440, 1>>, <<444, 444, 1>>, <<452, 452, 1>>,
      <<455, 455, 1>>, <<458, 458, 1>>, <<461, 475, 2>>, <<478, 494, 2>>, <<497, 497, 1>>,
      <<500, 502, 2>>, <<503, 504, 1>>, <<506, 562, 2>>, <<570, 571, 1>>, <<573, 574, 1>>,
      <<577, 579, 2>>, <<580, 582, 1>>, <<584, 590, 2>>, <<880, 882, 2>>, <<886, 886, 1>>,
      <<895, 895, 1>>, <<902, 904, 2>>, <<905, 906, 1>>, <<908, 910, 2>>, <<911, 913, 2>>,
      <<914, 929, 1>>, <<931, 939, 1>>, <<975, 975, 1>>, <<978, 980, 1>>, <<984, 1006, 2>>,
      <<1012, 1012, 1>>, <<1015, 1017, 2>>, <<1018, 1018, 1>>, <<1021, 1071, 1>>, <<1120, 1152, 2>>,
      <<1162, 1216, 2>>, <<1217, 1229, 2>>, <<1232, 1326, 2>>, <<1329, 1366, 1>>, <<4256, 4293, 1>>,
      <<4295, 4295, 1>>, <<4301, 4301, 1>>, <<5024, 5109, 1>>, <<7312, 7354, 1>>, <<7357, 7359, 1>>,
      <<7680, 7828, 2>>, <<7838, 7934, 2>>, <<7944, 7951, 1>>, <<7960, 7965, 1>>, <<7976, 7983, 1>>,
      <<7992, 7999, 1>>, <<8008, 8013, 1>>, <<8025, 8031, 2>>, <<8040, 8047, 1>>, <<8120, 8123, 1>>,
      <<8136, 8139, 1>>, <<8152, 8155, 1>>, <<8168, 8172, 1>>, <<8184, 8187, 1>>, <<8450, 8450, 1>>,
      <<8455, 8455, 1>>, <<8459, 8461, 1>>, <<8464, 8466, 1>>, <<8469, 8469, 1>>, <<8473, 8477, 1>>,
      <<8484, 8490, 2>>, <<8491, 8493, 1>>, <<8496, 8499, 1>>, <<8510, 8511, 1>>, <<8517, 8517, 1>>,
      <<8544, 8559, 1>>, <<8579, 8579, 1>>, <<9398, 9423, 1>>, <<11264, 11311, 1>>, <<11360, 11362, 2>>,
      <<11363, 11364, 1>>, <<11367, 11373, 2>>, <<11374, 11376, 1>>, <<11378, 11378, 1>>, <<11381, 11381, 1>>,
      <<11390, 11392, 1>>, <<11394, 11490, 2>>, <<11499, 11501, 2>>, <<11506, 11506, 1>>, <<42560, 42604, 2>>,
      <<42624, 42650, 2>>, <<42786, 42798, 2>>, <<42802, 42862, 2>>, <<42873, 42877, 2>>, <<42878, 42886, 2>>,
      <<42891, 42893, 2>>, <<42896, 42898, 2>>, <<42902, 42922, 2>>, <<42923, 42926, 1>>, <<42928, 42932, 1>>,
      <<42934, 42948, 2>>, <<42949, 42951, 1>>, <<42953, 42953, 1>>, <<42960, 42960, 1>>, <<42966, 42968, 2>>,
      <<42997, 42997, 1>>, <<65313, 65338, 1>>, <<66560, 66599, 1>>, <<66736, 66771, 1>>, <<66928, 66938, 1>>,
      <<66940, 66954, 1>>, <<66956, 66962, 1>>, <<66964, 66965, 1>>, <<68736, 68786, 1>>, <<71840, 71871, 1>>,
      <<93760, 93791, 1>>, <<119808, 119833, 1>>, <<119860, 119885, 1>>, <<119912, 119937, 1>>, <<119964, 119966, 2>>,
      <<119967, 119967, 1>>, <<119970, 119970, 1>>, <<119973, 119974, 1>>, <<119977, 119980, 1>>, <<119982, 119989, 1>>,
      <<120016, 120041, 1>>, <<120068, 120069, 1>>, <<120071, 120074, 1>>, <<120077, 120084, 1>>, <<120086, 120092, 1>>,
      <<120120, 120121, 1>>, <<120123, 120126, 1>>, <<120128, 120132, 1>>, <<120134, 120134, 1>>, <<120138, 120144, 1>>,
      <<120172, 120197, 1>>, <<120224, 120249, 1>>, <<120276, 120301, 1>>, <<120328, 120353, 1>>, <<120380, 120405, 1>>,
      <<120432, 120457, 1>>, <<120488, 120512, 1>>, <<120546, 120570, 1>>, <<120604, 120628, 1>>, <<120662, 120686, 1>>,
      <<120720, 120744, 1>>, <<120778, 120778, 1>>, <<125184, 125217, 1>>, <<127280, 127305, 1>>, <<127312, 127337, 1>>,
      <<127344, 127369, 1>> }

\* str.islower() of one character: Ll and Other_Lowercase
LowerRuns ==
    { <<97, 122, 1>>, <<170, 170, 1>>, <<181, 181, 1>>, <<186, 186, 1>>, <<223, 246, 1>>,
      <<248, 255, 1>>, <<257, 311, 2>>, <<312, 328, 2>>, <<329, 375, 2>>, <<378, 382, 2>>,
      <<383, 384, 1>>, <<387, 389, 2>>, <<392, 392, 1>>, <<396, 397, 1>>, <<402, 402, 1>>,
      <<405, 405, 1>>, <<409, 411, 1>>, <<414, 414, 1>>, <<417, 421, 2>>, <<424, 426, 2>>,
      <<427, 429, 2>>, <<432, 432, 1>>, <<436, 438, 2>>, <<441, 442, 1>>, <<445, 447, 1>>,
      <<454, 454, 1>>, <<457, 457, 1>>, <<460, 476, 2>>, <<477, 495, 2>>, <<496, 496, 1>>,
      <<499, 501, 2>>, <<505, 563, 2>>, <<564, 569, 1>>, <<572, 572, 1>>, <<575, 576, 1>>,
      <<578, 578, 1>>, <<583, 591, 2>>, <<592, 659, 1>>, <<661, 696, 1>>, <<704, 705, 1>>,
      <<736, 740, 1>>, <<837, 837, 1>>, <<881, 883, 2>>, <<887, 887, 1>>, <<890, 893, 1>>,
      <<912, 912, 1>>, <<940, 974, 1>>, <<976, 977, 1>>, <<981, 983, 1>>, <<985, 1007, 2>>,
      <<1008, 1011, 1>>, <<1013, 1013, 1>>, <<1016, 1016, 1>>, <<1019, 1020, 1>>, <<1072, 1119, 1>>,
      <<1121, 1153, 2>>, <<1163, 1215, 2>>, <<1218, 1230, 2>>, <<1231, 1327, 2>>, <<1376, 1416, 1>>,
      <<4304, 4346, 1>>, <<4349, 4351, 1>>, <<5112, 5117, 1>>, <<7296, 7304, 1>>, <<7424, 7615, 1>>,
      <<7681, 7829, 2>>, <<7830, 7837, 1>>, <<7839, 7935, 2>>, <<7936, 7943, 1>>, <<7952, 7957, 1>>,
      <<7968, 7975, 1>>, <<7984, 7991, 1>>, <<8000, 8005, 1>>, <<8016, 8023, 1>>, <<8032, 8039, 1>>,
      <<8048, 8061, 1>>, <<8064, 8071, 1>>, <<8080, 8087, 1>>, <<8096, 8103, 1>>, <<8112, 8116, 1>>,
      <<8118, 8119, 1>>, <<8126, 8126, 1>>, <<8130, 8132, 1>>, <<8134, 8135, 1>>, <<8144, 8147, 1>>,
      <<8150, 8151, 1>>, <<8160, 8167, 1>>, <<8178, 8180, 1>>, <<8182, 8183, 1>>, <<8305, 8305, 1>>,
      <<8319, 8319, 1>>, <<8336, 8348, 1>>, <<8458, 8458, 1>>, <<8462, 8463, 1>>, <<8467, 8467, 1>>,
      <<8495, 8495, 1>>, <<8500, 8500, 1>>, <<8505, 8505, 1>>, <<8508, 8509, 1>>, <<8518, 8521, 1>>,
      <<8526, 8526, 1>>, <<8560, 8575, 1>>, <<8580, 8580, 1>>, <<9424, 9449, 1>>, <<11312, 11359, 1>>,
      <<11361, 11361, 1>>, <<11365, 11366, 1>>, <<11368, 11372, 2>>, <<11377, 11379, 2>>, <<11380, 11382, 2>>,
      <<11383, 11389, 1>>, <<11393, 11491, 2>>, <<11492, 11492, 1>>, <<11500, 11502, 2>>, <<11507, 11507, 1>>,
      <<11520, 11557, 1>>, <<11559, 11559, 1>>, <<11565, 11565, 1>>, <<42561, 42605, 2>>, <<42625, 42651, 2>>,
      <<42652, 42653, 1>>, <<42787, 42799, 2>>, <<42800, 42801, 1>>, <<42803, 42863, 2>>, <<42864, 42872, 1>>,
      <<42874, 42876, 2>>, <<42879, 42887, 2>>, <<42892, 42894, 2>>, <<42897, 42899, 2>>, <<42900, 42901, 1>>,
      <<42903, 42921, 2>>, <<42927, 42927, 1>>, <<42933, 42947, 2>>, <<42952, 42954, 2>>, <<42961, 42969, 2>>,
      <<42998, 43000, 2>>, <<43001, 43002, 1>>, <<43824, 43866, 1>>, <<43868, 43880, 1>>, <<43888, 43967, 1>>,
      <<64256, 64262, 1>>, <<64275, 64279, 1>>, <<65345, 65370, 1>>, <<66600, 66639, 1>>, <<66776, 66811, 1>>,
      <<66967, 66977, 1>>, <<66979, 66993, 1>>, <<66995, 67001, 1>>, <<67003, 67004, 1>>, <<67456, 67456, 1>>,
      <<67459, 67461, 1>>, <<67463, 67504, 1>>, <<67506, 67514, 1>>, <<68800, 68850, 1>>, <<71872, 71903, 1>>,
      <<93792, 93823, 1>>, <<119834, 119859, 1>>, <<119886, 119892, 1>>, <<119894, 119911, 1>>, <<119938, 119963, 1>>,
      <<119990, 119993, 1>>, <<119995, 119997, 2>>, <<119998, 120003, 1>>, <<120005, 120015, 1>>, <<120042, 120067, 1>>,
      <<120094, 120119, 1>>, <<120146, 120171, 1>>, <<120198, 120223, 1>>, <<120250, 120275, 1>>, <<120302, 120327, 1>>,
      <<120354, 120379, 1>>, <<120406, 120431, 1>>, <<120458, 120485, 1>>, <<120514, 120538, 1>>, <<120540, 120545, 1>>,
      <<120572, 120596, 1>>, <<120598, 120603, 1>>, <<120630, 120654, 1>>, <<120656, 120661, 1>>, <<120688, 120712, 1>>,
      <<120714, 120719, 1>>, <<120746, 120770, 1>>, <<120772, 120777, 1>>, <<120779, 120779, 1>>, <<122624, 122633, 1>>,
      <<122635, 122654, 1>>, <<125218, 125251, 1>> }

\* str.upper(): the code points whose upper case is one other code point,
\* as runs <<first, last, step, offset of the upper case>>
ToUpperRuns ==
    { <<97, 122, 1, -32>>, <<181, 181, 1, 743>>, <<224, 246, 1, -32>>, <<248, 254, 1, -32>>,
      <<255, 255, 1, 121>>, <<257, 303, 2, -1>>, <<305, 305, 1, -232>>, <<307, 311, 2, -1>>,
      <<314, 328, 2, -1>>, <<331, 375, 2, -1>>, <<378, 382, 2, -1>>, <<383, 383, 1, -300>>,
      <<384, 384, 1, 195>>, <<387, 389, 2, -1>>, <<392, 392, 1, -1>>, <<396, 396, 1, -1>>,
      <<402, 402, 1, -1>>, <<405, 405, 1, 97>>, <<409, 409, 1, -1>>, <<410, 410, 1, 163>>,
      <<414, 414, 1, 130>>, <<417, 421, 2, -1>>, <<424, 424, 1, -1>>, <<429, 429, 1, -1>>,
      <<432, 432, 1, -1>>, <<436, 438, 2, -1>>, <<441, 441, 1, -1>>, <<445, 445, 1, -1>>,
      <<447, 447, 1, 56>>, <<453, 453, 1, -1>>, <<454, 454, 1, -2>>, <<456, 456, 1, -1>>,
      <<457, 457, 1, -2>>, <<459, 459, 1, -1>>, <<460, 460, 1, -2>>, <<462, 476, 2, -1>>,
      <<477, 477, 1, -79>>, <<479, 495, 2, -1>>, <<498, 498, 1, -1>>, <<499, 499, 1, -2>>,
      <<501, 501, 1, -1>>, <<505, 543, 2, -1>>, <<547, 563, 2, -1>>, <<572, 572, 1, -1>>,
      <<575, 576, 1, 10815>>, <<578, 578, 1, -1>>, <<583, 591, 2, -1>>, <<592, 592, 1, 10783>>,
      <<593, 593, 1, 10780>>, <<594, 594, 1, 10782>>, <<595, 595, 1, -210>>, <<596, 596, 1, -206>>,
      <<598, 599, 1, -205>>, <<601, 601, 1, -202>>, <<603, 603, 1, -203>>, <<604, 604, 1, 42319>>,
      <<608, 608, 1, -205>>, <<609, 609, 1, 42315>>, <<611, 611, 1, -207>>, <<613, 613, 1, 42280>>,
      <<614, 614, 1, 42308>>, <<616, 616, 1, -209>>, <<617, 617, 1, -211>>, <<618, 618, 1, 42308>>,
      <<619, 619, 1, 10743>>, <<620, 620, 1, 42305>>, <<623, 623, 1, -211>>, <<625, 625, 1, 10749>>,
      <<626, 626, 1, -213>>, <<629, 629, 1, -214>>, <<637, 637, 1, 10727>>, <<640, 640, 1, -218>>,
      <<642, 642, 1, 42307>>, <<643, 643, 1, -218>>, <<647, 647, 1, 42282>>, <<648, 648, 1, -218>>,
      <<649, 649, 1, -69>>, <<650, 651, 1, -217>>, <<652, 652, 1, -71>>, <<658, 658, 1, -219>>,
      <<669, 669, 1, 42261>>, <<670, 670, 1, 42258>>, <<837, 837, 1, 84>>, <<881, 883, 2, -1>>,
      <<887, 887, 1, -1>>, <<891, 893, 1, 130>>, <<940, 940, 1, -38>>, <<941, 943, 1, -37>>,
      <<945, 961, 1, -32>>, <<962, 962, 1, -31>>, <<963, 971, 1, -32>>, <<972, 972, 1, -64>>,
      <<973, 974, 1, -63>>, <<976, 976, 1, -62>>, <<977, 977, 1, -57>>, <<981, 981, 1, -47>>,
      <<982, 982, 1, -54>>, <<983, 983, 1, -8>>, <<985, 1007, 2, -1>>, <<1008, 1008, 1, -86>>,
      <<1009, 1009, 1, -80>>, <<1010, 1010, 1, 7>>, <<1011, 1011, 1, -116>>, <<1013, 1013, 1, -96>>,
      <<1016, 1016, 1, -1>>, <<1019, 1019, 1, -1>>, <<1072, 1103, 1, -32>>, <<1104, 1119, 1, -80>>,
      <<1121, 1153, 2, -1>>, <<1163, 1215, 2, -1>>, <<1218, 1230, 2, -1>>, <<1231, 1231, 1, -15>>,
      <<1233, 1327, 2, -1>>, <<1377, 1414, 1, -48>>, <<4304, 4346, 1, 3008>>, <<4349, 4351, 1, 3008>>,
      <<5112, 5117, 1, -8>>, <<7296, 7296, 1, -6254>>, <<7297, 7297, 1, -6253>>, <<7298, 7298, 1, -6244>>,
      <<7299, 7300, 1, -6242>>, <<7301, 7301, 1, -6243>>, <<7302, 7302, 1, -6236>>, <<7303, 7303, 1, -6181>>,
      <<7304, 7304, 1, 35266>>, <<7545, 7545, 1, 35332>>, <<7549, 7549, 1, 3814>>, <<7566, 7566, 1, 35384>>,
      <<7681, 7829, 2, -1>>, <<7835, 7835, 1, -59>>, <<7841, 7935, 2, -1>>, <<7936, 7943, 1, 8>>,
      <<7952, 7957, 1, 8>>, <<7968, 7975, 1, 8>>, <<7984, 7991, 1, 8>>, <<8000, 8005, 1, 8>>,
      <<8017, 8023, 2, 8>>, <<8032, 8039, 1, 8>>, <<8048, 8049, 1, 74>>, <<8050, 8053, 1, 86>>,
      <<8054, 8055, 1, 100>>, <<8056, 8057, 1, 128>>, <<8058, 8059, 1, 112>>, <<8060, 8061, 1, 126>>,
      <<8112, 8113, 1, 8>>, <<8126, 8126, 1, -7205>>, <<8144, 8145, 1, 8>>, <<8160, 8161, 1, 8>>,
      <<8165, 8165, 1, 7>>, <<8526, 8526, 1, -28>>, <<8560, 8575, 1, -16>>, <<8580, 8580, 1, -1>>,
      <<9424, 9449, 1, -26>>, <<11312, 11359, 1, -48>>, <<11361, 11361, 1, -1>>, <<11365, 11365, 1, -10795>>,
      <<11366, 11366, 1, -10792>>, <<11368, 11372, 2, -1>>, <<11379, 11379, 1, -1>>, <<11382, 11382, 1, -1>>,
      <<11393, 11491, 2, -1>>, <<11500, 11502, 2, -1>>, <<11507, 11507, 1, -1>>, <<11520, 11557, 1, -7264>>,
      <<11559, 11559, 1, -7264>>, <<11565, 11565, 1, -7264>>, <<42561, 42605, 2, -1>>, <<42625, 42651, 2, -1>>,
      <<42787, 42799, 2, -1>>, <<42803, 42863, 2, -1>>, <<42874, 42876, 2, -1>>, <<42879, 42887, 2, -1>>,
      <<42892, 42892, 1, -1>>, <<42897, 42899, 2, -1>>, <<42900, 42900, 1, 48>>, <<42903, 42921, 2, -1>>,
      <<42933, 42947, 2, -1>>, <<42952, 42954, 2, -1>>, <<42961, 42961, 1, -1>>, <<42967, 42969, 2, -1>>,
      <<42998, 42998, 1, -1>>, <<43859, 43859, 1, -928>>, <<43888, 43967, 1, -38864>>, <<65345, 65370, 1, -32>>,
      <<66600, 66639, 1, -40>>, <<66776, 66811, 1, -40>>, <<66967, 66977, 1, -39>>, <<66979, 66993, 1, -39>>,
      <<66995, 67001, 1, -39>>, <<67003, 67004, 1, -39>>, <<68800, 68850, 1, -64>>, <<71872, 71903, 1, -32>>,
      <<93792, 93823, 1, -32>>, <<125218, 125251, 1, -34>> }

\* str.upper(): the code points whose upper case is several code points
\* (SpecialCasing.txt), each with its upper case
SpecialCasing ==
    { <<223, <<83, 83>>>>, <<329, <<700, 78>>>>, <<496, <<74, 780>>>>, <<912, <<921, 776, 769>>>>,
      <<944, <<933, 776, 769>>>>, <<1415, <<1333, 1362>>>>, <<7830, <<72, 817>>>>, <<7831, <<84, 776>>>>,
      <<7832, <<87, 778>>>>, <<7833, <<89, 778>>>>, <<7834, <<65, 702>>>>, <<8016, <<933, 787>>>>,
      <<8018, <<933, 787, 768>>>>, <<8020, <<933, 787, 769>>>>, <<8022, <<933, 787, 834>>>>, <<8064, <<7944, 921>>>>,
      <<8065, <<7945, 921>>>>, <<8066, <<7946, 921>>>>, <<8067, <<7947, 921>>>>, <<8068, <<7948, 921>>>>,
      <<8069, <<7949, 921>>>>, <<8070, <<7950, 921>>>>, <<8071, <<7951, 921>>>>, <<8072, <<7944, 921>>>>,
      <<8073, <<7945, 921>>>>, <<8074, <<7946, 921>>>>, <<8075, <<7947, 921>>>>, <<8076, <<7948, 921>>>>,
      <<8077, <<7949, 921>>>>, <<8078, <<7950, 921>>>>, <<8079, <<7951, 921>>>>, <<8080, <<7976, 921>>>>,
      <<8081, <<7977, 921>>>>, <<8082, <<7978, 921>>>>, <<8083, <<7979, 921>>>>, <<8084, <<7980, 921>>>>,
      <<8085, <<7981, 921>>>>, <<8086, <<7982, 921>>>>, <<8087, <<7983, 921>>>>, <<8088, <<7976, 921>>>>,
      <<8089, <<7977, 921>>>>, <<8090, <<7978, 921>>>>, <<8091, <<7979, 921>>>>, <<8092, <<7980, 921>>>>,
      <<8093, <<7981, 921>>>>, <<8094, <<7982, 921>>>>, <<8095, <<7983, 921>>>>, <<8096, <<8040, 921>>>>,
      <<8097, <<8041, 921>>>>, <<8098, <<8042, 921>>>>, <<8099, <<8043, 921>>>>, <<8100, <<8044, 921>>>>,
      <<8101, <<8045, 921>>>>, <<8102, <<8046, 921>>>>, <<8103, <<8047, 921>>>>, <<8104, <<8040, 921>>>>,
      <<8105, <<8041, 921>>>>, <<8106, <<8042, 921>>>>, <<8107, <<8043, 921>>>>, <<8108, <<8044, 921>>>>,
      <<8109, <<8045, 921>>>>, <<8110, <<8046, 921>>>>, <<8111, <<8047, 921>>>>, <<8114, <<8122, 921>>>>,
      <<8115, <<913, 921>>>>, <<8116, <<902, 921>>>>, <<8118, <<913, 834>>>>, <<8119, <<913, 834, 921>>>>,
      <<8124, <<913, 921>>>>, <<8130, <<8138, 921>>>>, <<8131, <<919, 921>>>>, <<8132, <<905, 921>>>>,
      <<8134, <<919, 834>>>>, <<8135, <<919, 834, 921>>>>, <<8140, <<919, 921>>>>, <<8146, <<921, 776, 768>>>>,
      <<8147, <<921, 776, 769>>>>, <<8150, <<921, 834>>>>, <<8151, <<921, 776, 834>>>>, <<8162, <<933, 776, 768>>>>,
      <<8163, <<933, 776, 769>>>>, <<8164, <<929, 787>>>>, <<8166, <<933, 834>>>>, <<8167, <<933, 776, 834>>>>,
      <<8178, <<8186, 921>>>>, <<8179, <<937, 921>>>>, <<8180, <<911, 921>>>>, <<8182, <<937, 834>>>>,
      <<8183, <<937, 834, 921>>>>, <<8188, <<937, 921>>>>, <<64256, <<70, 70>>>>, <<64257, <<70, 73>>>>,
      <<64258, <<70, 76>>>>, <<64259, <<70, 70, 73>>>>, <<64260, <<70, 70, 76>>>>, <<64261, <<83, 84>>>>,
      <<64262, <<83, 84>>>>, <<64275, <<1348, 1350>>>>, <<64276, <<1348, 1333>>>>, <<64277, <<1348, 1339>>>>,
      <<64278, <<1358, 1350>>>>, <<64279, <<1348, 1341>>>> }

InRun(c, r) == r[1] <= c /\ c <= r[2] /\ (c - r[1]) % r[3] = 0

isspace(c) == \E r \in WhitespaceRuns : InRun(c, r)
isdigit(c) == \E r \in DigitRuns : InRun(c, r)
isupper(c) == \E r \in UpperRuns : InRun(c, r)
islower(c) == \E r \in LowerRuns : InRun(c, r)

\* the upper case of one character, a string of one to three characters;
\* of ASCII only a to z change, and the tables are searched for the rest
UpperChar(c) ==
    IF c < 128
    THEN IF 97 <= c /\ c <= 122 THEN <<c - 32>> ELSE <<c>>
    ELSE IF \E r \in ToUpperRuns : InRun(c, r)
    THEN <<c + (CHOOSE r \in ToUpperRuns : InRun(c, r))[4]>>
    ELSE IF \E m \in SpecialCasing : m[1] = c
    THEN (CHOOSE m \in SpecialCasing : m[1] = c)[2]
    ELSE <<c>>

RECURSIVE upper(_)
upper(s) == IF s = <<>> THEN <<>> ELSE UpperChar(Head(s)) \o upper(Tail(s))

RECURSIVE lstrip(_)
lstrip(s) == IF s # <<>> /\ isspace(Head(s)) THEN lstrip(Tail(s)) ELSE s

RECURSIVE rstrip(_)
rstrip(s) ==
    IF s # <<>> /\ isspace(s[Len(s)])
    THEN rstrip(SubSeq(s, 1, Len(s) - 1))
    ELSE s

strip(s) == rstrip(lstrip(s))

Contains(s, c) == \E i \in 1..Len(s) : s[i] = c

\* s.split(sep)[-1]: what follows the last occurrence of sep
LastPart(s, sep) ==
    IF Contains(s, sep)
    THEN LET k == CHOOSE i \in 1..Len(s) :
                      s[i] = sep /\ \A j \in (i+1)..Len(s) : s[j] # sep
         IN SubSeq(s, k + 1, Len(s))
    ELSE s

normalize_username(username) ==
    LET u == strip(username) IN
    IF Contains(u, 92) THEN upper(LastPart(u, 92))
    ELSE IF Contains(u, 47) THEN upper(LastPart(u, 47))
    ELSE upper(u)

(***************************************************************************)
(* Passwords: bcrypt is one-way and verify() accepts exactly the password  *)
(* that was hashed.                                                        *)
(***************************************************************************)
hash_password(password) == <<"bcrypt", password>>
verify_password(plain_password, hashed_password) ==
    hashed_password = <<"bcrypt", plain_password>>

(***************************************************************************)
(* Roles and capabilities                                                  *)
(***************************************************************************)
Capabilities ==
    {"view_planning", "edit_planning", "view_drivers", "manage_drivers",
     "edit_driver_planning", "manage_rights", "manage_voyages",
     "generate_planning", "edit_past_planning", "edit_past_planning_advanced",
     "view_finance", "manage_finance", "view_analyse", "view_sauron",
     "send_announcements", "manage_announcements_config", "admin_access"}

\* (variant: every capability column defaults to False)
UserRoleDefaultsNone == {}

\* column defaults of UserRole: the capabilities whose default is True
UserRoleDefaults == {"view_planning", "view_drivers"}

\* init_default_roles: the capabilities each seed role is created with
\* (keyword arguments of the constructor, plus the column defaults)
SeedRoles ==
    [viewer |-> {"view_planning", "view_drivers"} \cup UserRoleDefaults,
     planner |-> {"view_planning", "edit_planning", "view_drivers",
                  "manage_voyages", "send_announcements"} \cup UserRoleDefaults,
     planner_advanced |->
         {"view_planning", "edit_planning", "view_drivers", "manage_voyages",
          "edit_past_planning", "edit_past_planning_advanced", "view_finance",
          "send_announcements", "manage_announcements_config"}
         \cup UserRoleDefaults,
     driver_admin |-> {"view_planning", "view_drivers", "manage_drivers",
                       "edit_driver_planning"} \cup UserRoleDefaults,
     finance |-> {"view_planning", "view_finance", "manage_finance"}
                 \cup UserRoleDefaults,
     analyse |-> {"view_planning", "view_drivers", "view_finance",
                  "view_analyse"} \cup UserRoleDefaults,
     admin |-> Capabilities]

NoRole == "none"

\* (variant: is_system_admin is not looked at)
get_user_permissions_of_role(user) ==
    IF user.role = NoRole THEN {"view_planning"}
    ELSE SeedRoles[user.role]

\* AuthService.get_user_permissions, as the set of capabilities that are True
get_user_permissions(user) ==
    IF user.is_system_admin THEN Capabilities
    ELSE IF user.role = NoRole THEN {"view_planning"}
    ELSE SeedRoles[user.role]

(***************************************************************************)
(* State                                                                   *)
(***************************************************************************)
VARIABLES
    now,           \* datetime.utcnow(), in minutes
    ticks,         \* number of clock advances so far (bounded by MaxTicks)
    users,         \* table users: username -> row
    sessions,      \* table user_sessions: session_id -> row
    next_sid,      \* next fresh session_id (secrets.token_urlsafe never repeats)
    tokens,        \* the JWTs issued so far
    activity_log,  \* table activity_logs: its rows without id and created_at
    pc,            \* position of each request handler
    req,           \* the request each handler is serving
    snap,          \* the ORM objects loaded by each handler's db session
    resp,          \* the response of each handler's last request
    nreq,          \* number of mutating requests started (bounded by MaxRequests)
    tables,        \* tables chauffeurs, voyages, missions: kind -> id -> row
    commits,       \* the committed mutations, in commit order
    hub_clients,   \* WebSocketManager._clients, in insertion order
    hub_lock,      \* WebSocketManager._lock: its holder, then its waiters
    channel,       \* the state of each client's websocket
    inbox,         \* the messages each client has received, in order
    published,     \* the envelopes handed to WebSocketManager.broadcast
    ws,            \* the task serving each websocket connection
    client_counter, \* WebSocketManager._client_counter
    wall,          \* datetime.now(), in seconds since the midnight before the
                   \* server started, the minute shortened to Resolution seconds
    files,         \* the backup directory: file name -> file
    db_mtime,      \* the modification time of the live database file
    stop           \* BackgroundTasks._stop

storeVars == <<tables, commits>>
bgVars == <<wall, files, db_mtime, stop>>
wsVars == <<ws, client_counter>>
hubVars == <<hub_clients, hub_lock, channel, inbox, published, wsVars>>
pipeVars == <<storeVars, hubVars>>

vars == <<now, ticks, users, sessions, next_sid, tokens, activity_log,
          pc, req, snap, resp, nreq, bgVars, pipeVars>>

authVars == <<now, ticks, users, sessions, next_sid, tokens>>

(***************************************************************************)
(* Rows, tokens, requests                                                  *)
(***************************************************************************)
ADMIN == <<65, 68, 77, 73, 78>>  \* "ADMIN"
USER1 == <<85, 83, 69, 82, 49>>  \* "USER1"

\* passwords are strings of characters, as validate_password_strength reads them
GoodPassword == <<80, 97, 115, 115, 119, 48, 114, 100>>  \* "Passw0rd"
WrongPassword == <<119, 114, 111, 110, 103>>  \* "wrong"
NoHash == <<>>

\* a row of users; must_change_password is set for an account whose password
\* was generated (AuthService.create_user, admin_reset_password)
UserRow(name, pw, role, sysadmin) ==
    [username |-> name, password_hash |-> hash_password(pw),
     must_change_password |-> TRUE,
     failed_login_attempts |-> 0, locked_until |-> NoTime,
     is_active |-> TRUE, is_system_admin |-> sysadmin, role |-> role]

NoUser ==
    [username |-> <<>>, password_hash |-> NoHash,
     must_change_password |-> FALSE, failed_login_attempts |-> 0,
     locked_until |-> NoTime, is_active |-> FALSE, is_system_admin |-> FALSE,
     role |-> NoRole]

\* UserSession(...): created_at and last_activity default to utcnow,
\* is_active defaults to True
UserSession(username, t, expires_at) ==
    [user |-> username, created_at |-> t, last_activity |-> t,
     expires_at |-> expires_at, is_active |-> TRUE]

NoSession ==
    [user |-> <<>>, created_at |-> NoTime, last_activity |-> NoTime,
     expires_at |-> NoTime, is_active |-> FALSE]

\* jwt.encode({"sub", "session_id", "exp"}, secret_key): sig is TRUE for a
\* token signed with the server's key
Token(sub, sid, exp) == [sub |-> sub, session_id |-> sid, exp |-> exp, sig |-> TRUE]
ForgedToken == [sub |-> ADMIN, session_id |-> 1, exp |-> 100000, sig |-> FALSE]
NoToken == [sub |-> <<>>, session_id |-> 0, exp |-> 0, sig |-> FALSE]

\* jwt.decode: JWTError on a bad signature or when exp is in the past
jwt_decode_ok(token, t) == token.sig /\ ~(token.exp < t)

\* the columns of missions (voyage_id, chauffeur_id, sst_id, nb_palettes,
\* heure_debut, heure_fin) and of chauffeur_dispo (chauffeur_id, date_debut,
\* date_fin) that the other tables do not have; 0 and NoTime stand for NULL
NoData ==
    [voyage_id |-> 0, chauffeur_id |-> 0, sst_id |-> 0, nb_palettes |-> 0,
     debut |-> NoTime, fin |-> NoTime]

\* a row of chauffeurs, voyages or missions, which have the columns
\* created_by and updated_by (missions have no code)
EntityRow(code, username) ==
    [code |-> code, is_active |-> TRUE,
     created_by |-> username, updated_by |-> username, data |-> NoData]

\* the tables with a column created_by, and those with a column updated_by
\* (chauffeur_dispo has created_by only; sst, tarifs_sst, revenus_palettes
\* and sst_emails have neither)
HasCreatedBy(kind) == kind \in {"chauffeur", "voyage", "mission", "dispo"}
HasUpdatedBy(kind) == kind \in {"chauffeur", "voyage", "mission"}

\* the row a create_* handler builds from its body and the current user
NewRow(kind, code, username, is_active, data) ==
    [code |-> code, is_active |-> is_active,
     created_by |-> IF HasCreatedBy(kind) THEN username ELSE <<>>,
     updated_by |-> IF HasUpdatedBy(kind) THEN username ELSE <<>>,
     data |-> data]
NoEntity ==
    [code |-> <<>>, is_active |-> FALSE, created_by |-> <<>>, updated_by |-> <<>>,
     data |-> NoData]

\* what a handler holds: the ORM objects of its db session, the id of the
\* entity it works on, its position in the loop of broadcast, the rows it
\* has still to refresh, the message of a ValueError on its way to the
\* except-branch of login, and the two counts GET /ws/status has read
NoSnap == [user |-> NoUser, sid |-> 0, session |-> NoSession,
           target |-> NoUser, entity |-> NoEntity, entity_id |-> 0,
           cursor |-> 0, disconnected |-> {}, rows |-> {}, pending |-> {},
           detail |-> <<"", 0>>, counts |-> <<0, 0>>]
\* the JSON body of an answer, for the endpoints whose body is looked at:
\* permissions (GET /auth/me), the ids of the rows of a listing, the ids
\* in the two lists of GET /chauffeurs/disponibles (the order of a list is
\* left out), the file names in the results of BackupService, and the
\* three keys of GET /ws/status
NoBody == [permissions |-> {}, items |-> {},
           disponibles |-> {}, indisponibles |-> {},
           backup_file |-> <<>>, restored_from |-> <<>>, safety_backup |-> <<>>,
           connected_clients |-> 0, connected_users |-> 0, users |-> {}]
NoResp == [status |-> 0, detail |-> <<"", 0>>, body |-> NoBody]
Resp(status, text, n) ==
    [status |-> status, detail |-> <<text, n>>, body |-> NoBody]

\* rid numbers the mutating requests in the order they arrive
\* is_active, is_system_admin, role_name: the optional fields of a body, ""
\* for a field that is left out, "true" / "false" for a boolean that is given
\* fields: the keys of an update body that are set; nulls: those given as null
\* logged: LoggingMiddleware has committed the ApiRequestLog row of the
\* request
\* hdr: the request has an Authorization header; scheme: the words of the
\* header before the token, each followed by one space ("Bearer <token>"
\* is scheme <<"Bearer">>, a bare "<token>" is scheme <<>>)
NoReq == [op |-> "none", raw |-> <<>>, password |-> <<>>, hdr |-> FALSE,
          scheme |-> <<"Bearer">>, token |-> NoToken, target |-> <<>>, sid |-> 0, flag |-> FALSE,
          entity_id |-> 0, rid |-> 0, data |-> NoData, new_password |-> <<>>,
          items |-> <<>>, role_name |-> "", is_system_admin |-> "",
          is_active |-> "", fields |-> {}, nulls |-> {},
          active_only |-> TRUE, check_date |-> NoTime,
          filename |-> <<>>, retention_days |-> 0, logged |-> FALSE]

ActivityLog(username, action_type, entity_type, entity_id) ==
    [username |-> username, action_type |-> action_type,
     entity_type |-> entity_type, entity_id |-> entity_id, rid |-> 0]

(***************************************************************************)
(* Initial state: the database after first start (init_default_roles,      *)
(* init_default_admin) and the creation of one ordinary user.              *)
(***************************************************************************)
InitUsers ==
    (ADMIN :> UserRow(ADMIN, GoodPassword, "admin", TRUE))
    @@ (USER1 :> UserRow(USER1, GoodPassword, "viewer", FALSE))

InitAuth ==
    /\ now = 0
    /\ ticks = 0
    /\ users = InitUsers
    /\ sessions = [s \in {} |-> NoSession]
    /\ next_sid = 1
    /\ tokens = {}

InitProcs ==
    /\ pc = [p \in Procs |-> "idle"]
    /\ req = [p \in Procs |-> NoReq]
    /\ snap = [p \in Procs |-> NoSnap]
    /\ resp = [p \in Procs |-> NoResp]
    /\ nreq = 0

Kinds == {"chauffeur", "voyage", "sst", "mission", "dispo",
          "tarif_sst", "revenu_palette", "sst_email"}

\* the connections to /ws that are served
WsConns == 1..MaxConnections

\* the locals of websocket_endpoint and of the WebSocketManager method it is
\* in: the token of the query string, username, client_id, the position in
\* the loop over the clients and the list "disconnected", and the code the
\* connection was closed with; received counts the messages of the client
\* that the receive loop has taken
NoWs == [pc |-> "closed", hdr |-> FALSE, token |-> NoToken, username |-> <<>>,
         client_id |-> 0, cursor |-> 0, disconnected |-> {}, close_code |-> 0,
         received |-> 0]

\* the database as init_db leaves it, and the backup directory as
\* get_backup_path creates it
InitStore ==
    /\ tables = [k \in Kinds |-> [i \in {} |-> NoEntity]]
    /\ commits = <<>>
    /\ wall = 0
    /\ files = <<>>
    /\ db_mtime = 0
    /\ stop = FALSE

\* WebSocketManager.__init__
InitHub ==
    /\ hub_clients = <<>>
    /\ hub_lock = <<>>
    /\ channel = [c \in {} |-> "open"]
    /\ inbox = [c \in {} |-> <<>>]
    /\ published = <<>>
    /\ ws = [w \in WsConns |-> NoWs]
    /\ client_counter = 0

Init ==
    /\ InitAuth
    /\ InitProcs
    /\ activity_log = {}
    /\ InitStore
    /\ InitHub

(***************************************************************************)
(* The clock.  Between two steps of the handlers any of these amounts of   *)
(* time may pass.                                                          *)
(***************************************************************************)
ClockSteps == {1, LOCKOUT_DURATION_MINUTES, access_token_expire_minutes}

Tick(d) ==
    /\ ticks < MaxTicks
    /\ ticks' = ticks + 1
    /\ now' = now + d
    /\ UNCHANGED <<users, sessions, next_sid, tokens, activity_log,
                   pc, req, snap, resp, nreq, bgVars, pipeVars>>

(***************************************************************************)
(* The unit of work of a db session: commit() writes, for a loaded object, *)
(* the columns whose value was changed since it was loaded.                *)
(***************************************************************************)
\* (variant: the whole loaded object is written back)
FlushWholeRow(dbrow, loaded, changed) == changed

Flush(dbrow, loaded, changed) ==
    [c \in DOMAIN dbrow |->
        IF c = "data"
        THEN [f \in DOMAIN dbrow[c] |->
                 IF changed[c][f] # loaded[c][f] THEN changed[c][f]
                 ELSE dbrow[c][f]]
        ELSE IF changed[c] # loaded[c] THEN changed[c] ELSE dbrow[c]]

\* The handler has raised an exception that no handler of the application
\* turns into a response (or was cancelled): call_next raises it in
\* LoggingMiddleware.dispatch, which raises it again before its own commit
Raised(response) == response.status \in {0, 500}

\* nothing of an earlier request is left to do for p
Free(p) ==
    \/ pc[p] = "idle"
    \/ pc[p] = "done" /\ (req[p].logged \/ Raised(resp[p]))

\* what is remembered of a request once it is answered
Closed(r) ==
    [NoReq EXCEPT !.password = r.password, !.hdr = r.hdr,
                  !.scheme = r.scheme, !.token = r.token, !.rid = r.rid]

\* the handler returns or raises: the response is sent and the handler's db
\* session is closed (get_db)
Finish(p, r, response) ==
    /\ pc' = [pc EXCEPT ![p] = "done"]
    /\ resp' = [resp EXCEPT ![p] = response]
    /\ snap' = [snap EXCEPT ![p] = NoSnap]
    /\ req' = [req EXCEPT ![p] = Closed(r)]

\* a commit that has rows to write modifies the database file
Written == db_mtime' = wall

\* a commit with nothing to write leaves the file alone
Touch(dirty) == db_mtime' = IF dirty THEN wall ELSE db_mtime

\* db.add(log_entry); await db.commit()
LogActivity(entry) ==
    /\ activity_log' = activity_log \cup {entry}
    /\ Written

\* LoggingMiddleware.dispatch after "await call_next(request)" has returned
\* a response: the ApiRequestLog row is added in a db session of its own and
\* committed, whatever the status of the response, and the response is
\* passed on
RequestLog(p) ==
    /\ pc[p] = "done"
    /\ ~req[p].logged
    /\ ~Raised(resp[p])
    /\ req' = [req EXCEPT ![p].logged = TRUE]
    /\ Written
    /\ UNCHANGED <<authVars, activity_log, pc, snap, resp, nreq, wall, stop, files,
                   pipeVars>>

(***************************************************************************)
(* AuthService: account lockout                                            *)
(***************************************************************************)
\* (variant: the account is still locked at the instant locked_until)
IsLockedInclusive(user, t) == user.locked_until # NoTime /\ user.locked_until >= t

\* (variant: the comparison of check_account_locked reversed)
IsLockedReversed(user, t) == user.locked_until # NoTime /\ user.locked_until < t

\* check_account_locked, first part
IsLocked(user, t) == user.locked_until # NoTime /\ user.locked_until > t

\* check_account_locked, second part: an expired lock is cleared
check_account_locked(user, t) ==
    IF user.locked_until # NoTime /\ user.locked_until <= t
    THEN [user EXCEPT !.locked_until = NoTime, !.failed_login_attempts = 0]
    ELSE user

\* (variant: the failed attempt is not counted)
record_failed_login_uncounted(user, t) == user

record_failed_login(user, t) ==
    LET n == user.failed_login_attempts + 1 IN
    [user EXCEPT !.failed_login_attempts = n,
                 !.locked_until = IF n >= MAX_FAILED_ATTEMPTS
                                  THEN t + LOCKOUT_DURATION_MINUTES
                                  ELSE @]

reset_failed_attempts(user) ==
    IF user.failed_login_attempts > 0
    THEN [user EXCEPT !.failed_login_attempts = 0, !.locked_until = NoTime]
    ELSE user

(***************************************************************************)
(* POST /auth/login                                                        *)
(***************************************************************************)
\* login, except-branch, for a ValueError raised with no await since the
\* last one: "db.add(log_entry); await db.commit()" and the 401
RaiseValueError(p, text, n) ==
    /\ LogActivity(ActivityLog(normalize_username(req[p].raw), "LOGIN_FAILED", "", 0))
    /\ Finish(p, req[p], Resp(401, text, n))

\* login / authenticate, the SELECT of get_user_by_username: without a row
\* authenticate raises ValueError, which login then has to log
Login(p, raw, password) ==
    /\ Free(p)
    /\ LET u == normalize_username(raw)
           r == [NoReq EXCEPT !.op = "login", !.raw = raw, !.password = password]
       IN
       /\ req' = [req EXCEPT ![p] = r]
       /\ resp' = [resp EXCEPT ![p] = NoResp]
       /\ IF u \notin DOMAIN users
          THEN /\ pc' = [pc EXCEPT ![p] = "login_failed"]
               /\ snap' = [snap EXCEPT ![p] =
                      [NoSnap EXCEPT !.detail = <<"Identifiants invalides", 0>>]]
          ELSE /\ pc' = [pc EXCEPT ![p] = "auth_loaded"]
               /\ snap' = [snap EXCEPT ![p] = [NoSnap EXCEPT !.user = users[u]]]
    /\ UNCHANGED <<authVars, activity_log, nreq, bgVars, pipeVars>>

\* login, except-branch, after an await of authenticate: the commit of the
\* LOGIN_FAILED row and the 401 with the message of the ValueError
LoginFailed(p) ==
    /\ pc[p] = "login_failed"
    /\ RaiseValueError(p, snap[p].detail[1], snap[p].detail[2])
    /\ UNCHANGED <<authVars, nreq, wall, stop, files, pipeVars>>

\* authenticate: "db.add(session); user.last_login = ...; await db.commit()"
CreateSession(p, user) ==
    LET expires_at == now + access_token_expire_minutes
        session == UserSession(user.username, now, expires_at)
    IN /\ next_sid <= MaxSessions
       /\ sessions' = sessions @@ (next_sid :> session)
       /\ next_sid' = next_sid + 1
       /\ pc' = [pc EXCEPT ![p] = "session_created"]
       /\ snap' = [snap EXCEPT ![p].user = user, ![p].sid = next_sid,
                               ![p].session = session]
       /\ Written
       /\ UNCHANGED <<users, activity_log, req, resp>>

\* authenticate from "if not user.password_hash" to its next commit: that of
\* record_failed_login, that of reset_failed_attempts (which commits only
\* when the counter is above 0), or that of the new session
VerifyPassword(p, user) ==
    LET u == user.username IN
    IF user.password_hash = NoHash
    THEN /\ RaiseValueError(p, "Compte non configure. Contactez l'administrateur.", 0)
         /\ UNCHANGED <<users, sessions, next_sid>>
    ELSE IF ~verify_password(req[p].password, user.password_hash)
    THEN LET failed == record_failed_login(user, now)
             remaining == MAX_FAILED_ATTEMPTS - failed.failed_login_attempts
         IN /\ users' = [users EXCEPT ![u] = Flush(@, user, failed)]
            /\ pc' = [pc EXCEPT ![p] = "login_failed"]
            /\ snap' = [snap EXCEPT
                  ![p].user = failed,
                  ![p].detail =
                      IF remaining > 0
                      THEN <<"Mot de passe incorrect. {} tentative(s) restante(s).",
                             remaining>>
                      ELSE <<"Compte verrouille pour {} minutes.",
                             LOCKOUT_DURATION_MINUTES>>]
            /\ Written
            /\ UNCHANGED <<sessions, next_sid, activity_log, req, resp>>
    ELSE IF user.failed_login_attempts > 0
    THEN LET ok == reset_failed_attempts(user) IN
         /\ users' = [users EXCEPT ![u] = Flush(@, user, ok)]
         /\ pc' = [pc EXCEPT ![p] = "auth_reset"]
         /\ snap' = [snap EXCEPT ![p].user = ok]
         /\ Written
         /\ UNCHANGED <<sessions, next_sid, activity_log, req, resp>>
    ELSE CreateSession(p, user)

\* authenticate, from the is_active test to its first commit.  An account
\* that is inactive or locked raises ValueError with no commit before that
\* of login's LOGIN_FAILED row; check_account_locked commits when it clears
\* a lock that has expired, and awaits nothing otherwise.
Authenticate(p) ==
    /\ pc[p] = "auth_loaded"
    /\ LET user == snap[p].user
           u == user.username
           unlocked == check_account_locked(user, now)
       IN
       IF ~user.is_active
       THEN /\ RaiseValueError(p, "Compte desactive. Contactez l'administrateur.", 0)
            /\ UNCHANGED <<users, sessions, next_sid>>
       ELSE IF IsLocked(user, now)
       THEN /\ RaiseValueError(p, "Compte verrouille. Reessayez dans {} minutes.",
                               (user.locked_until - now) + 1)
            /\ UNCHANGED <<users, sessions, next_sid>>
       ELSE IF unlocked # user
       THEN /\ users' = [users EXCEPT ![u] = Flush(@, user, unlocked)]
            /\ pc' = [pc EXCEPT ![p] = "auth_unlocked"]
            /\ snap' = [snap EXCEPT ![p].user = unlocked]
            /\ Written
            /\ UNCHANGED <<sessions, next_sid, activity_log, req, resp>>
       ELSE VerifyPassword(p, user)
    /\ UNCHANGED <<now, ticks, tokens, nreq, wall, stop, files, pipeVars>>

\* authenticate after the commit of check_account_locked
AuthUnlocked(p) ==
    /\ pc[p] = "auth_unlocked"
    /\ VerifyPassword(p, snap[p].user)
    /\ UNCHANGED <<now, ticks, tokens, nreq, wall, stop, files, pipeVars>>

\* authenticate after the commit of reset_failed_attempts
AuthReset(p) ==
    /\ pc[p] = "auth_reset"
    /\ CreateSession(p, snap[p].user)
    /\ UNCHANGED <<now, ticks, tokens, nreq, wall, stop, files, pipeVars>>

\* authenticate after the commit of the session: the token, "await
\* db.refresh(user, ["role"])" (the role of the role_id the object holds; no
\* row is read that another request can write), then login's commit of the
\* LOGIN row and the answer with the token
LoginCommit(p) ==
    /\ pc[p] = "session_created"
    /\ tokens' = tokens \cup {Token(snap[p].user.username, snap[p].sid,
                                    snap[p].session.expires_at)}
    /\ LogActivity(ActivityLog(snap[p].user.username, "LOGIN", "", 0))
    /\ Finish(p, req[p], Resp(200, "access_token", snap[p].sid))
    /\ UNCHANGED <<now, ticks, users, sessions, next_sid, nreq, wall, stop, files,
            pipeVars>>

(***************************************************************************)
(* get_current_user / AuthService.validate_token / require_permission      *)
(***************************************************************************)
\* (variant: the mutating endpoints declare no capability)
RequiredPermissionAdminOnly(op) ==
    CASE op \in {"force_disconnect", "kick_session", "update_user"}
           -> "manage_rights"
      [] OTHER -> "none"

\* the capability each endpoint declares with require_permission
RequiredPermission(op) ==
    CASE op \in {"force_disconnect", "kick_session", "update_user",
                 "create_user", "delete_user", "reset_user_password"}
           -> "manage_rights"
      [] op \in {"create_chauffeur", "update_chauffeur", "delete_chauffeur"}
           -> "manage_drivers"
      [] op \in {"create_voyage", "update_voyage", "delete_voyage"}
           -> "manage_voyages"
      [] op \in {"create_mission", "update_mission", "delete_mission",
                 "create_missions_bulk"}
           -> "edit_planning"
      [] op \in {"create_sst", "update_sst", "delete_sst",
                 "create_tarif", "update_tarif", "delete_tarif",
                 "create_revenu_palette", "update_revenu_palette",
                 "delete_revenu_palette",
                 "create_sst_email", "delete_sst_email"}
           -> "manage_finance"
      [] op \in {"kick_all_sessions", "create_backup", "restore_backup",
                 "delete_backup", "cleanup_old_backups"}
           -> "admin_access"
      [] op \in {"create_disponibilite", "delete_disponibilite"}
           -> "edit_driver_planning"
      [] op \in {"list_chauffeurs", "get_chauffeurs_disponibles"}
           -> "view_drivers"
      [] op \in {"list_voyages", "list_missions"} -> "view_planning"
      [] op = "list_sst" -> "view_finance"
      [] OTHER -> "none"

\* the mutating endpoints of the routers chauffeurs, voyages, sst, missions
\* and finance
CreateOps == {"create_chauffeur", "create_voyage", "create_sst",
              "create_mission", "create_disponibilite",
              "create_tarif", "create_revenu_palette", "create_sst_email"}
UpdateOps == {"update_chauffeur", "update_voyage", "update_sst",
              "update_mission", "update_tarif", "update_revenu_palette"}
\* the handlers that set is_active to False, and those that delete the row
DeleteOps == {"delete_chauffeur", "delete_voyage", "delete_sst"}
RemoveOps == {"delete_mission", "delete_disponibilite",
              "delete_tarif", "delete_revenu_palette", "delete_sst_email"}
BulkOps == {"create_missions_bulk"}
MutatingOps ==
    CreateOps \cup UpdateOps \cup DeleteOps \cup RemoveOps \cup BulkOps

\* the endpoints of routers/admin.py that write the backup directory
BackupOps == {"create_backup", "restore_backup", "delete_backup",
              "cleanup_old_backups"}

\* the endpoints of routers/admin.py that write the users table and are
\* followed in a bounded number
AccountOps == {"create_user", "reset_user_password"}

\* the requests that are numbered, and of which MaxRequests are followed
CountedOps == MutatingOps \cup BackupOps \cup AccountOps

\* the listings
ListOps == {"list_chauffeurs", "list_voyages", "list_sst", "list_missions"}

\* (variant: the SELECT without its expires_at condition)
SessionLookupNoExpiry(token, t) ==
    { s \in DOMAIN sessions :
        s = token.session_id /\ sessions[s].is_active }

\* the SELECT of validate_token: the session named by the token, if it is
\* active and not expired
SessionLookup(token, t) ==
    { s \in DOMAIN sessions :
        /\ s = token.session_id
        /\ sessions[s].is_active
        /\ sessions[s].expires_at > t }

\* authorization.startswith("Bearer ")
StartsWithBearer(r) == r.scheme # <<>> /\ r.scheme[1] = "Bearer"

\* authorization.replace("Bearer ", ""): every "Bearer " is removed, and what
\* is left is the token only if the header had no other word before it
BearerToken(r) ==
    IF \A i \in 1..Len(r.scheme) : r.scheme[i] = "Bearer"
    THEN r.token
    ELSE NoToken

\* get_current_user up to the session SELECT of validate_token
Request(p, r0) ==
    /\ Free(p)
    /\ r0.op \in CountedOps => nreq < MaxRequests
    /\ nreq' = IF r0.op \in CountedOps THEN nreq + 1 ELSE nreq
    /\ LET r == IF r0.op \in CountedOps
                THEN [r0 EXCEPT !.rid = nreq + 1] ELSE r0
       IN
       IF ~r.hdr
       THEN Finish(p, r, Resp(401, "Token d'authentification manquant", 0))
       ELSE IF ~StartsWithBearer(r)
       THEN Finish(p, r, Resp(401, "Format de token invalide", 0))
       ELSE IF \/ ~jwt_decode_ok(BearerToken(r), now)
               \/ BearerToken(r).sub = <<>>
               \/ BearerToken(r).session_id = 0
               \/ SessionLookup(BearerToken(r), now) = {}
       THEN Finish(p, r, Resp(401, "Token invalide ou expire", 0))
       ELSE /\ req' = [req EXCEPT ![p] = r]
            /\ pc' = [pc EXCEPT ![p] = "val_found"]
            /\ resp' = [resp EXCEPT ![p] = NoResp]
            /\ snap' = [snap EXCEPT ![p] =
                   [NoSnap EXCEPT !.sid = r.token.session_id,
                                  !.session = sessions[r.token.session_id]]]
    /\ UNCHANGED <<authVars, activity_log, pipeVars, bgVars>>

\* validate_token, "session.last_activity = utcnow(); await db.commit()".
\* The UPDATE of a row that was deleted meanwhile raises StaleDataError.
ValidateCommit(p) ==
    /\ pc[p] = "val_found"
    /\ LET sid == snap[p].sid
           loaded == snap[p].session
           touched == [loaded EXCEPT !.last_activity = now]
       IN
       IF sid \notin DOMAIN sessions
       THEN /\ Finish(p, req[p], Resp(500, "StaleDataError", 0))
            /\ UNCHANGED <<sessions, db_mtime>>
       ELSE /\ sessions' = [sessions EXCEPT ![sid] = Flush(@, loaded, touched)]
            /\ pc' = [pc EXCEPT ![p] = "val_committed"]
            /\ snap' = [snap EXCEPT ![p].session = touched]
            /\ Written
            /\ UNCHANGED <<resp, req>>
    /\ UNCHANGED <<now, ticks, users, next_sid, tokens, activity_log, nreq, wall,
            stop, files, pipeVars>>

\* validate_token from the SELECT of get_user_by_username to its return
\* ("await db.refresh(user, ["role"])" loads the role of the role_id that
\* SELECT has read), then the rest of get_current_user and require_permission
ValidateUser(p) ==
    /\ pc[p] = "val_committed"
    /\ LET u == normalize_username(req[p].token.sub)
           perm == RequiredPermission(req[p].op)
       IN
       IF u \notin DOMAIN users
       THEN Finish(p, req[p], Resp(401, "Token invalide ou expire", 0))
       ELSE IF ~users[u].is_active
       THEN Finish(p, req[p], Resp(403, "Compte utilisateur desactive", 0))
       ELSE IF perm # "none" /\ perm \notin get_user_permissions(users[u])
       THEN Finish(p, req[p], Resp(403, "Permission '{}' requise", 0))
       ELSE IF req[p].op \in CreateOps /\ ~req[p].flag
       THEN Finish(p, req[p], Resp(422, "RequestValidationError", 0))
       ELSE IF req[p].op = "me"
       THEN Finish(p, req[p],
               [Resp(200, "me", 0) EXCEPT
                   !.body.permissions = get_user_permissions(users[u])])
       ELSE /\ pc' = [pc EXCEPT ![p] = "authed"]
            /\ snap' = [snap EXCEPT ![p].user = users[u]]
            /\ UNCHANGED <<resp, req>>
    /\ UNCHANGED <<authVars, activity_log, nreq, bgVars, pipeVars>>

(***************************************************************************)
(* POST /auth/logout, POST /auth/refresh                                   *)
(***************************************************************************)
\* (variant: logout leaves the session row as it is)
logout_nothing(p) == sessions

\* AuthService.logout, "session.is_active = False; await db.commit()": the
\* sessions table after it, given the handler's loaded session object.  On
\* an object that is inactive already the assignment changes nothing and
\* the commit has nothing to write.
logout(p) ==
    LET sid == snap[p].sid
        loaded == snap[p].session
    IN IF loaded.is_active
       THEN [sessions EXCEPT ![sid] =
                Flush(@, loaded, [loaded EXCEPT !.is_active = FALSE])]
       ELSE sessions

\* AuthService.logout up to its SELECT, for POST /auth/logout and for
\* POST /auth/refresh: jwt.decode (JWTError when the token has expired since
\* get_current_user), then the session row by session_id.  Without a row
\* logout returns False: /auth/logout answers "Erreur", /auth/refresh goes on.
\* The db session is the one validate_token used; its identity map refers
\* weakly to the object validate_token loaded, which was freed when
\* validate_token returned (nothing else refers to it), so that the SELECT
\* builds a new object from the row as it is now.
LogoutSelect(p) ==
    /\ pc[p] = "authed"
    /\ req[p].op \in {"logout", "refresh"}
    /\ IF jwt_decode_ok(req[p].token, now) /\ snap[p].sid \in DOMAIN sessions
       THEN /\ pc' = [pc EXCEPT ![p] = "logout_found"]
            /\ snap' = [snap EXCEPT ![p].session = sessions[snap[p].sid]]
            /\ UNCHANGED <<req, resp>>
       ELSE IF req[p].op = "logout"
       THEN Finish(p, req[p], Resp(200, "Erreur", 0))
       ELSE /\ pc' = [pc EXCEPT ![p] = "refresh_logged_out"]
            /\ UNCHANGED <<req, snap, resp>>
    /\ UNCHANGED <<authVars, activity_log, nreq, bgVars, pipeVars>>

\* POST /auth/logout, the commit of AuthService.logout: the UPDATE of a row
\* that was deleted since the SELECT raises StaleDataError; there is no
\* UPDATE when the object was inactive already
Logout(p) ==
    /\ pc[p] = "logout_found"
    /\ req[p].op = "logout"
    /\ IF snap[p].session.is_active /\ snap[p].sid \notin DOMAIN sessions
       THEN /\ Finish(p, req[p], Resp(500, "StaleDataError", 0))
            /\ UNCHANGED <<sessions, db_mtime>>
       ELSE /\ sessions' = logout(p)
            /\ pc' = [pc EXCEPT ![p] = "logged_out"]
            /\ Touch(snap[p].session.is_active)
            /\ UNCHANGED <<req, snap, resp>>
    /\ UNCHANGED <<now, ticks, users, next_sid, tokens, activity_log, nreq,
                   wall, stop, files, pipeVars>>

\* ... "db.add(log_entry); await db.commit()" and the answer
LogoutLog(p) ==
    /\ pc[p] = "logged_out"
    /\ LogActivity(ActivityLog(snap[p].user.username, "LOGOUT", "", 0))
    /\ Finish(p, req[p], Resp(200, "Deconnecte", 0))
    /\ UNCHANGED <<authVars, nreq, wall, stop, files, pipeVars>>

\* (variant: the refresh creates the new session without closing the old one)
RefreshLogoutSkipped(p) ==
    /\ pc[p] = "logout_found"
    /\ req[p].op = "refresh"
    /\ pc' = [pc EXCEPT ![p] = "refresh_logged_out"]
    /\ UNCHANGED <<now, ticks, users, sessions, next_sid, tokens, activity_log,
                   req, snap, resp, nreq, bgVars, pipeVars>>

\* refresh_token, the commit of "await AuthService.logout(db, old_token)":
\* a StaleDataError ends the request before a session is created; there is
\* no UPDATE when the object was inactive already
RefreshLogout(p) ==
    /\ pc[p] = "logout_found"
    /\ req[p].op = "refresh"
    /\ IF snap[p].session.is_active /\ snap[p].sid \notin DOMAIN sessions
       THEN /\ Finish(p, req[p], Resp(500, "StaleDataError", 0))
            /\ UNCHANGED <<sessions, db_mtime>>
       ELSE /\ sessions' = logout(p)
            /\ pc' = [pc EXCEPT ![p] = "refresh_logged_out"]
            /\ Touch(snap[p].session.is_active)
            /\ UNCHANGED <<req, snap, resp>>
    /\ UNCHANGED <<now, ticks, users, next_sid, tokens, activity_log,
                   nreq, wall, stop, files, pipeVars>>

\* (variant: the new session expires when it is created)
RefreshExpiryNow(t) == t

\* refresh_token: expires_at = utcnow() + timedelta(minutes=...)
RefreshExpiry(t) == t + access_token_expire_minutes

\* refresh_token: the new session, its commit and the new token
RefreshCreate(p) ==
    /\ pc[p] = "refresh_logged_out"
    /\ next_sid <= MaxSessions
    /\ LET u == snap[p].user.username
           expires_at == RefreshExpiry(now)
       IN /\ sessions' = sessions @@ (next_sid :> UserSession(u, now, expires_at))
          /\ tokens' = tokens \cup {Token(u, next_sid, expires_at)}
          /\ Finish(p, req[p], Resp(200, "access_token", next_sid))
    /\ next_sid' = next_sid + 1
    /\ Written
    /\ UNCHANGED <<now, ticks, users, activity_log, nreq, wall, stop, files,
            pipeVars>>

(***************************************************************************)
(* Administration of sessions and users (routers/admin.py)                 *)
(***************************************************************************)
\* AuthService.force_disconnect_user up to its second SELECT: the active
\* sessions of the user, none for a user that does not exist
ActiveSessionsOf(username) ==
    LET u == normalize_username(username) IN
    IF u \notin DOMAIN users THEN {}
    ELSE { s \in DOMAIN sessions : sessions[s].user = u /\ sessions[s].is_active }

\* (variant: only one of the selected sessions is closed)
force_disconnect_one(rows) ==
    IF rows = {} THEN sessions
    ELSE [sessions EXCEPT ![CHOOSE s \in rows : \A o \in rows : s <= o]
                              .is_active = FALSE]

\* AuthService.force_disconnect_user, "for session in sessions:
\* session.is_active = False" and the commit: the sessions table after it
force_disconnect_user(rows) ==
    [s \in DOMAIN sessions |->
        IF s \in rows THEN [sessions[s] EXCEPT !.is_active = FALSE]
        ELSE sessions[s]]

\* POST /admin/sessions/disconnect/{username} up to the SELECTs of
\* force_disconnect_user (the first reads the id of the user, which no
\* request changes).  For a user that does not exist it returns 0 at once,
\* with no commit of its own.
ForceDisconnectSelect(p) ==
    /\ pc[p] = "authed"
    /\ req[p].op = "force_disconnect"
    /\ pc' = [pc EXCEPT ![p] =
                 IF normalize_username(req[p].target) \in DOMAIN users
                 THEN "disconnect_found" ELSE "disconnected"]
    /\ snap' = [snap EXCEPT ![p].rows = ActiveSessionsOf(req[p].target)]
    /\ UNCHANGED <<authVars, activity_log, req, resp, nreq, bgVars, pipeVars>>

\* ... the commit of force_disconnect_user: one UPDATE for each selected
\* row, and StaleDataError if one of them was deleted since the SELECT
ForceDisconnect(p) ==
    /\ pc[p] = "disconnect_found"
    /\ req[p].op = "force_disconnect"
    /\ IF \E s \in snap[p].rows : s \notin DOMAIN sessions
       THEN /\ Finish(p, req[p], Resp(500, "StaleDataError", 0))
            /\ UNCHANGED <<sessions, db_mtime>>
       ELSE /\ sessions' = force_disconnect_user(snap[p].rows)
            /\ pc' = [pc EXCEPT ![p] = "disconnected"]
            /\ Touch(snap[p].rows # {})
            /\ UNCHANGED <<req, snap, resp>>
    /\ UNCHANGED <<now, ticks, users, next_sid, tokens, activity_log, nreq,
                   wall, stop, files, pipeVars>>

\* ... the commit of the FORCE_DISCONNECT entry and the answer with the count
ForceDisconnectLog(p) ==
    /\ pc[p] = "disconnected"
    /\ LogActivity(ActivityLog(snap[p].user.username, "FORCE_DISCONNECT", "user", 0))
    /\ Finish(p, req[p],
              Resp(200, "{} session(s) fermee(s) pour {}", Cardinality(snap[p].rows)))
    /\ UNCHANGED <<authVars, nreq, wall, stop, files, pipeVars>>

\* kick_session_by_id up to "await db.delete(session)": the SELECT, then
\* session.user, a lazy load that an AsyncSession can only serve from its
\* identity map, which holds the caller's user and no other (MissingGreenlet)
KickSelect(p) ==
    /\ pc[p] = "authed"
    /\ req[p].op = "kick_session"
    /\ IF req[p].sid \notin DOMAIN sessions
       THEN Finish(p, req[p], Resp(404, "Session non trouvee", 0))
       ELSE IF sessions[req[p].sid].user # snap[p].user.username
       THEN Finish(p, req[p], Resp(500, "MissingGreenlet", 0))
       ELSE /\ pc' = [pc EXCEPT ![p] = "kick_found"]
            /\ UNCHANGED <<req, snap, resp>>
    /\ UNCHANGED <<authVars, activity_log, nreq, bgVars, pipeVars>>

\* ... from the commit: the DELETE (one that matches no row is only warned
\* about) and the SESSION_KICK entry
KickSession(p) ==
    /\ pc[p] = "kick_found"
    /\ req[p].op = "kick_session"
    /\ sessions' = [s \in DOMAIN sessions \ {req[p].sid} |-> sessions[s]]
    /\ LogActivity(ActivityLog(snap[p].user.username, "SESSION_KICK", "", 0))
    /\ Finish(p, req[p], Resp(200, "Session de {} terminee", 0))
    /\ UNCHANGED <<now, ticks, users, next_sid, tokens, nreq, wall, stop, files,
            pipeVars>>

\* kick_all_sessions up to its SELECT of every row of user_sessions
KickAllSelect(p) ==
    /\ pc[p] = "authed"
    /\ req[p].op = "kick_all_sessions"
    /\ IF ~snap[p].user.is_system_admin
       THEN Finish(p, req[p],
                Resp(403, "Seul un admin systeme peut deconnecter tout le monde", 0))
       ELSE /\ pc' = [pc EXCEPT ![p] = "kick_all_found"]
            /\ snap' = [snap EXCEPT ![p].rows = DOMAIN sessions]
            /\ UNCHANGED <<req, resp>>
    /\ UNCHANGED <<authVars, activity_log, nreq, bgVars, pipeVars>>

\* ... from the commit: every selected row is deleted, the caller's rows
\* with the others, and the answer counts the selected rows
KickAll(p) ==
    /\ pc[p] = "kick_all_found"
    /\ req[p].op = "kick_all_sessions"
    /\ sessions' = [s \in DOMAIN sessions \ snap[p].rows |-> sessions[s]]
    /\ LogActivity(ActivityLog(snap[p].user.username, "SESSION_KICK_ALL", "", 0))
    /\ Finish(p, req[p],
              Resp(200, "{} session(s) fermee(s)", Cardinality(snap[p].rows)))
    /\ UNCHANGED <<now, ticks, users, next_sid, tokens, nreq, wall, stop, files,
            pipeVars>>

\* (variant: the session commits what is pending when it is closed)
get_db_commits(stored, pending) == pending

\* get_db: "finally: await session.close()" with attribute changes that were
\* never committed: the stored row stays as it is
get_db(stored, pending) == stored

\* the User object that "select(User).where(User.id == user_id)" returns in
\* handler p: the one the db session already holds for the caller, a fresh
\* one for any other user
LoadUser(p, username) ==
    IF username = snap[p].user.username THEN snap[p].user ELSE users[username]

\* the value of an optional boolean of a body
Given(field) == field = "true"

\* update_user, "if user_data.is_active is not None: user.is_active = ..."
\* and, past the 403, "user.is_system_admin = ..."
AssignFlags(user, r) ==
    [user EXCEPT !.is_active = IF r.is_active = "" THEN @ ELSE Given(r.is_active),
                 !.is_system_admin =
                     IF r.is_system_admin = "" THEN @
                     ELSE Given(r.is_system_admin)]

\* ... "user.role = role"
AssignRole(user, r) ==
    [user EXCEPT !.role = IF r.role_name = "" THEN @ ELSE r.role_name]

\* PUT /admin/users/{user_id} up to its SELECT of the user (req.target) and
\* the assignments that follow it.  The handler assigns is_active to the
\* loaded object before it looks at is_system_admin; an HTTPException leaves
\* the assignment to the closing session.
UpdateUserSelect(p) ==
    /\ pc[p] = "authed"
    /\ req[p].op = "update_user"
    /\ IF req[p].target \notin DOMAIN users
       THEN /\ Finish(p, req[p], Resp(404, "Utilisateur {} non trouve", 0))
            /\ UNCHANGED users
       ELSE IF req[p].is_system_admin # "" /\ ~snap[p].user.is_system_admin
       THEN /\ Finish(p, req[p],
                   Resp(403, "Seul un admin systeme peut modifier ce privilege", 0))
            /\ users' = [users EXCEPT ![req[p].target] =
                   get_db(@, [@ EXCEPT !.is_active =
                                 IF req[p].is_active = "" THEN @
                                 ELSE Given(req[p].is_active)])]
       ELSE /\ pc' = [pc EXCEPT ![p] = "update_user_found"]
            /\ snap' = [snap EXCEPT ![p].target = LoadUser(p, req[p].target)]
            /\ UNCHANGED <<users, req, resp>>
    /\ UNCHANGED <<now, ticks, sessions, next_sid, tokens, activity_log, nreq, bgVars, pipeVars>>

\* ... the SELECT of the role, when the body has role_name, and the 400
UpdateUserRole(p) ==
    /\ pc[p] = "update_user_found"
    /\ req[p].role_name # ""
    /\ IF req[p].role_name \notin DOMAIN SeedRoles
       THEN /\ Finish(p, req[p], Resp(400, "Role '{}' non trouve", 0))
            /\ users' = [users EXCEPT ![req[p].target] =
                   get_db(@, AssignFlags(@, req[p]))]
       ELSE /\ pc' = [pc EXCEPT ![p] = "update_user_role"]
            /\ UNCHANGED <<users, req, snap, resp>>
    /\ UNCHANGED <<now, ticks, sessions, next_sid, tokens, activity_log, nreq, bgVars, pipeVars>>

\* ... "await db.commit()", which writes the columns the handler has
\* changed on the object it loaded, then "await db.refresh(user, ["role"])"
\* and the answer
UpdateUser(p) ==
    /\ \/ pc[p] = "update_user_role"
       \/ pc[p] = "update_user_found" /\ req[p].role_name = ""
    /\ LET loaded == snap[p].target
           changed == AssignRole(AssignFlags(loaded, req[p]), req[p])
       IN /\ users' = [users EXCEPT ![req[p].target] = Flush(@, loaded, changed)]
          /\ Touch(changed # loaded)
    /\ Finish(p, req[p], Resp(200, "user", 0))
    /\ UNCHANGED <<now, ticks, sessions, next_sid, tokens, activity_log, nreq, wall,
            stop, files, pipeVars>>

\* POST /admin/users up to the commit: the username must be new and the
\* role must exist.  req.raw is the username of the body, req.role_name its
\* role_name and req.flag its is_active.  The handler normalizes the name,
\* and get_user_by_username normalizes what it is given once more: the name
\* looked up is not always the name that is stored.
CreateUserCheck(p) ==
    /\ pc[p] = "authed"
    /\ req[p].op = "create_user"
    /\ IF normalize_username(normalize_username(req[p].raw)) \in DOMAIN users
       THEN Finish(p, req[p], Resp(400, "L'utilisateur '{}' existe deja", 0))
       ELSE IF req[p].role_name \notin DOMAIN SeedRoles
       THEN Finish(p, req[p], Resp(400, "Role '{}' non trouve", 0))
       ELSE /\ pc' = [pc EXCEPT ![p] = "user_checked"]
            /\ UNCHANGED <<req, snap, resp>>
    /\ UNCHANGED <<authVars, activity_log, nreq, bgVars, pipeVars>>

\* ... "db.add(user); await db.commit()": the row has no password_hash and
\* the column defaults; username is unique, and the INSERT of a name that
\* was created since the check raises IntegrityError
CreateUser(p) ==
    /\ pc[p] = "user_checked"
    /\ LET u == normalize_username(req[p].raw) IN
       IF u \in DOMAIN users
       THEN /\ Finish(p, req[p], Resp(500, "IntegrityError", 0))
            /\ UNCHANGED <<users, db_mtime>>
       ELSE /\ users' = users @@
                  (u :> [username |-> u, password_hash |-> NoHash,
                         must_change_password |-> TRUE,
                         failed_login_attempts |-> 0, locked_until |-> NoTime,
                         is_active |-> req[p].flag, is_system_admin |-> FALSE,
                         role |-> req[p].role_name])
            /\ pc' = [pc EXCEPT ![p] = "user_created"]
            /\ Written
            /\ UNCHANGED <<req, snap, resp>>
    /\ UNCHANGED <<now, ticks, sessions, next_sid, tokens, activity_log, nreq,
                   wall, stop, files, pipeVars>>

\* ... "await db.refresh(user)" (users are never removed, and the answer is
\* not looked at), then the commit of the CREATE entry and the answer
CreateUserLog(p) ==
    /\ pc[p] = "user_created"
    /\ LogActivity(ActivityLog(snap[p].user.username, "CREATE", "user", 0))
    /\ Finish(p, req[p], Resp(201, "user", 0))
    /\ UNCHANGED <<authVars, nreq, wall, stop, files, pipeVars>>

\* DELETE /admin/users/{user_id} up to its SELECT; req.target names the user
DeleteUserSelect(p) ==
    /\ pc[p] = "authed"
    /\ req[p].op = "delete_user"
    /\ IF req[p].target = snap[p].user.username
       THEN Finish(p, req[p],
                Resp(400, "Vous ne pouvez pas vous desactiver vous-meme", 0))
       ELSE IF req[p].target \notin DOMAIN users
       THEN Finish(p, req[p], Resp(404, "Utilisateur {} non trouve", 0))
       ELSE /\ pc' = [pc EXCEPT ![p] = "delete_user_found"]
            /\ snap' = [snap EXCEPT ![p].target = users[req[p].target]]
            /\ UNCHANGED <<req, resp>>
    /\ UNCHANGED <<authVars, activity_log, nreq, bgVars, pipeVars>>

\* ... "user.is_active = False; await db.commit()"
DeleteUserCommit(p) ==
    /\ pc[p] = "delete_user_found"
    /\ LET loaded == snap[p].target IN
       /\ users' = [users EXCEPT ![req[p].target] =
                       Flush(@, loaded, [loaded EXCEPT !.is_active = FALSE])]
       /\ Touch(loaded.is_active)
    /\ pc' = [pc EXCEPT ![p] = "user_deactivated"]
    /\ UNCHANGED <<now, ticks, sessions, next_sid, tokens, activity_log,
                   req, snap, resp, nreq, wall, stop, files, pipeVars>>

\* ... the SELECTs of force_disconnect_user
DeleteUserSessions(p) ==
    /\ pc[p] = "user_deactivated"
    /\ pc' = [pc EXCEPT ![p] = "delete_user_sessions"]
    /\ snap' = [snap EXCEPT ![p].rows = ActiveSessionsOf(req[p].target)]
    /\ UNCHANGED <<authVars, activity_log, req, resp, nreq, bgVars, pipeVars>>

\* ... the commit of force_disconnect_user and the answer; the handler
\* writes no ActivityLog row
DeleteUser(p) ==
    /\ pc[p] = "delete_user_sessions"
    /\ IF \E s \in snap[p].rows : s \notin DOMAIN sessions
       THEN /\ Finish(p, req[p], Resp(500, "StaleDataError", 0))
            /\ UNCHANGED <<sessions, db_mtime>>
       ELSE /\ sessions' = force_disconnect_user(snap[p].rows)
            /\ Touch(snap[p].rows # {})
            /\ Finish(p, req[p], Resp(200, "Utilisateur {} desactive", 0))
    /\ UNCHANGED <<now, ticks, users, next_sid, tokens, activity_log, nreq,
                   wall, stop, files, pipeVars>>

\* AuthService.generate_temp_password: secrets.token_urlsafe(9), twelve
\* characters that never repeat; the one made for request rid
generate_temp_password(rid) ==
    <<116, 75, 95, 52, 113, 45, 88, 97, 50, 122, 71, 48 + rid>>

\* POST /admin/users/{user_id}/reset-password up to its SELECT
ResetPasswordSelect(p) ==
    /\ pc[p] = "authed"
    /\ req[p].op = "reset_user_password"
    /\ IF req[p].target \notin DOMAIN users
       THEN Finish(p, req[p], Resp(404, "Utilisateur non trouve", 0))
       ELSE /\ pc' = [pc EXCEPT ![p] = "reset_found"]
            /\ snap' = [snap EXCEPT ![p].target = LoadUser(p, req[p].target)]
            /\ UNCHANGED <<req, resp>>
    /\ UNCHANGED <<authVars, activity_log, nreq, bgVars, pipeVars>>

\* ... the new password_hash, must_change_password, the reset of the lockout
\* and the PASSWORD_RESET entry in one commit; the answer carries the
\* temporary password
ResetPassword(p) ==
    /\ pc[p] = "reset_found"
    /\ LET loaded == snap[p].target
           temp_password == generate_temp_password(req[p].rid)
       IN
       /\ users' = [users EXCEPT ![req[p].target] =
              Flush(@, loaded,
                    [loaded EXCEPT
                        !.password_hash = hash_password(temp_password),
                        !.must_change_password = TRUE,
                        !.failed_login_attempts = 0,
                        !.locked_until = NoTime])]
       /\ LogActivity(ActivityLog(snap[p].user.username, "PASSWORD_RESET", "user", 0))
       /\ Finish(p, req[p], Resp(200, "temp_password", req[p].rid))
    /\ UNCHANGED <<now, ticks, sessions, next_sid, tokens, nreq, wall, stop, files,
            pipeVars>>

(***************************************************************************)
(* The mutating endpoints: chauffeurs, voyages, missions                   *)
(***************************************************************************)
Kind(op) ==
    CASE op \in {"create_chauffeur", "update_chauffeur", "delete_chauffeur",
                 "list_chauffeurs", "get_chauffeurs_disponibles"}
           -> "chauffeur"
      [] op \in {"create_voyage", "update_voyage", "delete_voyage",
                 "list_voyages"} -> "voyage"
      [] op \in {"create_sst", "update_sst", "delete_sst", "list_sst"} -> "sst"
      [] op \in {"create_disponibilite", "delete_disponibilite"} -> "dispo"
      [] op \in {"create_tarif", "update_tarif", "delete_tarif"} -> "tarif_sst"
      [] op \in {"create_sst_email", "delete_sst_email"} -> "sst_email"
      [] op \in {"create_revenu_palette", "update_revenu_palette",
                 "delete_revenu_palette"} -> "revenu_palette"
      [] OTHER -> "mission"

\* the kinds whose code column is declared unique=True
UniqueCode(kind) == kind \in {"chauffeur", "sst"}

\* the handlers that end with "await notify_change(...)"
Notifies(op) == Kind(op) \in {"chauffeur", "dispo"}

\* the handlers that write an ActivityLog row (create_disponibilite,
\* delete_disponibilite, update_tarif, delete_tarif,
\* delete_revenu_palette, create_sst_email and delete_sst_email do not)
Logs(op) ==
    /\ Kind(op) \notin {"dispo", "sst_email"}
    /\ op \notin {"update_tarif", "delete_tarif", "delete_revenu_palette"}

\* the tables whose rows take is_active from the body of the request
HasIsActive(kind) == kind \in {"chauffeur", "voyage", "sst", "tarif_sst"}

\* the handlers that call "await db.refresh(row)" after their commit
Refreshes(op) == op \in CreateOps \cup UpdateOps \cup BulkOps

\* action_type of the handler's ActivityLog row
ActionType(op) ==
    CASE op \in CreateOps -> "CREATE"
      [] op \in UpdateOps -> "UPDATE"
      [] op \in BulkOps -> "BULK_CREATE"
      [] op \in RemoveOps -> "DELETE"
      [] OTHER -> "DEACTIVATE"

\* the action named in the handler's notify_change call
EnvelopeAction(op) ==
    CASE op \in CreateOps -> "created"
      [] op \in UpdateOps -> "updated"
      [] op \in BulkOps -> "created"
      [] OTHER -> "deleted"

SuccessStatus(op) == IF op \in CreateOps THEN 201 ELSE 200

\* the largest id of a table: the primary key is an INTEGER PRIMARY KEY
\* without AUTOINCREMENT, which SQLite fills with one more than the largest
\* id in the table
LastId(kind) ==
    IF DOMAIN tables[kind] = {} THEN 0
    ELSE CHOOSE i \in DOMAIN tables[kind] : \A j \in DOMAIN tables[kind] : j <= i

\* rows of a table whose code equals the given one
WithCode(kind, code) ==
    { i \in DOMAIN tables[kind] : tables[kind][i].code = code }

\* the committed mutation of handler p, as remembered in commit order
Mutation(p, id) ==
    [entity |-> Kind(req[p].op), action |-> EnvelopeAction(req[p].op),
     entity_id |-> id, changed_by |-> snap[p].user.username,
     rid |-> req[p].rid]

\* the message built by broadcast for notify_change(entity, action, id,
\* changed_by)
Envelope(p) ==
    [type |-> "data_changed",
     entity |-> IF Kind(req[p].op) = "dispo" THEN "disponibilites"
                ELSE "chauffeurs",
     action |-> EnvelopeAction(req[p].op), entity_id |-> snap[p].entity_id,
     changed_by |-> snap[p].user.username, rid |-> req[p].rid]

\* create_chauffeur / create_voyage / create_sst: the SELECT of the row with
\* the upper-cased code, and the 400 when there is one
CreateCheck(p) ==
    /\ pc[p] = "authed"
    /\ req[p].op \in CreateOps
    /\ Kind(req[p].op) \in {"chauffeur", "voyage", "sst"}
    /\ LET existing == WithCode(Kind(req[p].op), upper(req[p].raw)) IN
       IF Cardinality(existing) > 1
       THEN Finish(p, req[p], Resp(500, "MultipleResultsFound", 0))
       ELSE IF existing # {}
       THEN Finish(p, req[p], Resp(400, "Un {} avec le code '{}' existe deja", 0))
       ELSE /\ pc' = [pc EXCEPT ![p] = "checked"]
            /\ UNCHANGED <<req, snap, resp>>
    /\ UNCHANGED <<authVars, activity_log, nreq, bgVars, pipeVars>>

\* the handler is about to INSERT
InsertReady(p) ==
    \/ pc[p] = "checked"
    \/ pc[p] = "authed" /\ req[p].op \in {"create_mission", "create_revenu_palette"}

\* create_*: db.add(row); await db.commit().  The row is built from
\* "**data.model_dump()", is_active (True when the body leaves it out)
\* included.  The unique index of chauffeurs.code and of sst.code makes the
\* INSERT of a second row with the code fail.
\* The ForeignKey columns of a mission are stored as they are given: the
\* engine is created without "PRAGMA foreign_keys=ON" (database.py), and
\* SQLite does not enforce foreign keys without it.
CreateCommit(p) ==
    /\ InsertReady(p)
    /\ LET kind == Kind(req[p].op)
           code == IF kind \in {"chauffeur", "voyage", "sst"}
                   THEN upper(req[p].raw) ELSE <<>>
           is_active == IF HasIsActive(kind) /\ req[p].is_active # ""
                        THEN Given(req[p].is_active) ELSE TRUE
           id == LastId(kind) + 1
       IN
       IF UniqueCode(kind) /\ WithCode(kind, code) # {}
       THEN /\ Finish(p, req[p], Resp(500, "IntegrityError", 0))
            /\ UNCHANGED <<storeVars, db_mtime>>
       ELSE /\ tables' = [tables EXCEPT ![kind] =
                   (id :> NewRow(kind, code, snap[p].user.username,
                                 is_active, req[p].data)) @@ @]
            /\ commits' = Append(commits, Mutation(p, id))
            /\ pc' = [pc EXCEPT ![p] = "committed"]
            /\ snap' = [snap EXCEPT ![p].entity_id = id, ![p].pending = {id}]
            /\ Written
            /\ UNCHANGED <<req, resp>>
    /\ UNCHANGED <<authVars, activity_log, nreq, wall, stop, files, hubVars>>

\* the detail of the 404 of each router, with the id in place of {}
NotFound(kind) ==
    CASE kind = "chauffeur" -> "Chauffeur {} non trouve"
      [] kind = "voyage" -> "Voyage {} non trouve"
      [] kind = "sst" -> "SST {} non trouve"
      [] kind = "mission" -> "Mission {} non trouvee"
      [] kind = "dispo" -> "Indisponibilite {} non trouvee"
      [] kind = "tarif_sst" -> "Tarif {} non trouve"
      [] kind = "revenu_palette" -> "Revenu palette {} non trouve"
      [] kind = "sst_email" -> "Email {} non trouve"

\* update_* / delete_*: the SELECT by id, and the 404
UpdateLoad(p) ==
    /\ pc[p] = "authed"
    /\ req[p].op \in UpdateOps \cup DeleteOps \cup RemoveOps
    /\ LET kind == Kind(req[p].op)
           id == req[p].entity_id
       IN
       IF id \notin DOMAIN tables[kind]
       THEN Finish(p, req[p], Resp(404, NotFound(kind), id))
       ELSE /\ pc' = [pc EXCEPT ![p] = "loaded"]
            /\ snap' = [snap EXCEPT ![p].entity = tables[kind][id],
                                    ![p].entity_id = id]
            /\ UNCHANGED <<req, resp>>
    /\ UNCHANGED <<authVars, activity_log, nreq, bgVars, pipeVars>>

\* the keys code and is_active that the body of an update may carry: those
\* of ChauffeurUpdate, VoyageUpdate, SSTUpdate and TarifSSTUpdate;
\* RevenuPaletteUpdate and MissionUpdate have neither, and a key that the
\* schema does not have is left out of the body when it is parsed
UpdateKeys(kind) ==
    CASE kind \in {"chauffeur", "voyage", "sst"} -> {"code", "is_active"}
      [] kind = "tarif_sst" -> {"is_active"}
      [] OTHER -> {}

\* update_chauffeur, update_voyage, update_sst, update_tarif: "for field,
\* value in update_data.items(): if field == "code" and value: value =
\* value.upper(); setattr(row, field, value)" for the keys code and is_active
\* of the body, when they are set to a value
SetAttrs(p, loaded) ==
    LET keys == UpdateKeys(Kind(req[p].op)) IN
    [loaded EXCEPT
        !.code = IF "code" \in (req[p].fields \ req[p].nulls) \cap keys
                 THEN (IF req[p].raw # <<>> THEN upper(req[p].raw) ELSE <<>>)
                 ELSE @,
        !.is_active = IF req[p].is_active # "" /\ "is_active" \in keys
                      THEN Given(req[p].is_active)
                      ELSE @]

\* ... and for a key of the schema that is given as null: code and
\* is_active are declared Mapped[str] and Mapped[bool], NOT NULL, and the
\* UPDATE that sets one of them to NULL fails
SetsNull(p) ==
    /\ req[p].op \in UpdateOps
    /\ req[p].nulls \cap UpdateKeys(Kind(req[p].op)) # {}

\* the loaded object after the handler's setattr calls
Modified(p) ==
    LET loaded == snap[p].entity
        by == snap[p].user.username
        kind == Kind(req[p].op)
    IN IF req[p].op \in RemoveOps
       THEN loaded
       ELSE IF req[p].op \in DeleteOps
       THEN [loaded EXCEPT !.is_active = FALSE,
                           !.updated_by = IF HasUpdatedBy(kind) THEN by ELSE @]
       ELSE IF req[p].op = "update_mission"
       THEN [loaded EXCEPT
                !.data = [f \in DOMAIN NoData |->
                             IF f \in req[p].fields THEN req[p].data[f]
                             ELSE loaded.data[f]],
                !.updated_by = by]
       ELSE [SetAttrs(p, loaded) EXCEPT
                !.updated_by = IF HasUpdatedBy(kind) THEN by ELSE @]

\* update_* / delete_*: await db.commit() writes the changed columns, or
\* deletes the row after "await db.delete(row)".  The UPDATE of a row that
\* was deleted since the SELECT raises StaleDataError; a DELETE that matches
\* no row is only warned about.
UpdateCommit(p) ==
    /\ pc[p] = "loaded"
    /\ LET kind == Kind(req[p].op)
           id == snap[p].entity_id
           changed == Modified(p)
       IN
       IF req[p].op \in RemoveOps
       THEN /\ tables' = [tables EXCEPT ![kind] =
                   [i \in DOMAIN @ \ {id} |-> @[i]]]
            /\ commits' = Append(commits, Mutation(p, id))
            /\ pc' = [pc EXCEPT ![p] = "committed"]
            /\ Touch(id \in DOMAIN tables[kind])
            /\ UNCHANGED <<req, snap, resp>>
       ELSE IF id \notin DOMAIN tables[kind]
       THEN IF changed # snap[p].entity \/ SetsNull(p)
            THEN /\ Finish(p, req[p], Resp(500, "StaleDataError", 0))
                 /\ UNCHANGED <<storeVars, db_mtime>>
            ELSE /\ commits' = Append(commits, Mutation(p, id))
                 /\ pc' = [pc EXCEPT ![p] = "committed"]
                 /\ snap' = [snap EXCEPT ![p].pending = {id}]
                 /\ UNCHANGED <<tables, req, resp, db_mtime>>
       ELSE IF \/ SetsNull(p)
               \/ /\ UniqueCode(kind)
                  /\ changed.code # snap[p].entity.code
                  /\ WithCode(kind, changed.code) \ {id} # {}
       THEN /\ Finish(p, req[p], Resp(500, "IntegrityError", 0))
            /\ UNCHANGED <<storeVars, db_mtime>>
       ELSE /\ tables' = [tables EXCEPT ![kind][id] =
                              Flush(@, snap[p].entity, changed)]
            /\ commits' = Append(commits, Mutation(p, id))
            /\ pc' = [pc EXCEPT ![p] = "committed"]
            /\ snap' = [snap EXCEPT ![p].entity = changed, ![p].pending = {id}]
            /\ Touch(changed # snap[p].entity)
            /\ UNCHANGED <<req, resp>>
    /\ UNCHANGED <<authVars, activity_log, nreq, wall, stop, files, hubVars>>

\* the smallest of a set of ids
Lowest(ids) == CHOOSE i \in ids : \A j \in ids : i <= j

\* "await db.refresh(row)" after the commit, once for every row of a bulk
\* creation in the order of the body: the row is read again, and
\* InvalidRequestError is raised for a row that was deleted since the commit
Refresh(p) ==
    /\ pc[p] = "committed"
    /\ Refreshes(req[p].op)
    /\ snap[p].pending # {}
    /\ LET kind == Kind(req[p].op)
           id == Lowest(snap[p].pending)
       IN
       IF id \notin DOMAIN tables[kind]
       THEN Finish(p, req[p], Resp(500, "InvalidRequestError", 0))
       ELSE /\ pc' = [pc EXCEPT ![p] =
                   IF snap[p].pending = {id} THEN "refreshed" ELSE @]
            /\ snap' = [snap EXCEPT ![p].pending = @ \ {id},
                                    ![p].entity = tables[kind][id]]
            /\ UNCHANGED <<req, resp>>
    /\ UNCHANGED <<authVars, activity_log, nreq, bgVars, pipeVars>>

\* (variant: the ActivityLog row is written before the entity is committed)
AuditReadyEarly(p) ==
    pc[p] \in {"checked", "loaded", "committed", "refreshed"}

\* the handler has committed its mutation, has refreshed what it refreshes
\* (nothing after a bulk creation with an empty body), and goes on to log it
AuditReady(p) ==
    \/ pc[p] = "refreshed"
    \/ pc[p] = "committed" /\ (~Refreshes(req[p].op) \/ snap[p].pending = {})

\* db.add(log_entry); await db.commit(); handlers without notify_change
\* then return
AuditCommit(p) ==
    /\ AuditReady(p)
    /\ LET op == req[p].op IN
       /\ IF Logs(op)
          THEN LogActivity([ActivityLog(snap[p].user.username, ActionType(op),
                                        Kind(op), snap[p].entity_id)
                               EXCEPT !.rid = req[p].rid])
          ELSE UNCHANGED <<activity_log, db_mtime>>
       /\ IF Notifies(op)
          THEN /\ pc' = [pc EXCEPT ![p] = "audited"]
               /\ UNCHANGED <<req, snap, resp>>
          ELSE Finish(p, req[p], Resp(SuccessStatus(op), "ok", snap[p].entity_id))
    /\ UNCHANGED <<authVars, nreq, wall, stop, files, pipeVars>>

(***************************************************************************)
(* Missions in bulk, unavailabilities, listings                            *)
(***************************************************************************)
\* create_missions_bulk: db.add for every element of the body, then one
\* await db.commit()
BulkCommit(p) ==
    /\ pc[p] = "authed"
    /\ req[p].op \in BulkOps
    /\ LET n == LastId("mission")
           created == [i \in (n + 1)..(n + Len(req[p].items)) |->
                          NewRow("mission", <<>>, snap[p].user.username, TRUE,
                                 req[p].items[i - n])]
       IN
       /\ tables' = [tables EXCEPT !["mission"] = created @@ @]
       /\ commits' = Append(commits, Mutation(p, 0))
       /\ pc' = [pc EXCEPT ![p] = "committed"]
       /\ snap' = [snap EXCEPT ![p].entity_id = 0, ![p].rows = DOMAIN created,
                               ![p].pending = DOMAIN created]
       /\ Touch(Len(req[p].items) > 0)
       /\ UNCHANGED <<req, resp>>
    /\ UNCHANGED <<authVars, activity_log, nreq, wall, stop, files, hubVars>>

\* create_disponibilite: the SELECT of the chauffeur, and the 404
DispoCheck(p) ==
    /\ pc[p] = "authed"
    /\ req[p].op = "create_disponibilite"
    /\ IF req[p].data.chauffeur_id \notin DOMAIN tables["chauffeur"]
       THEN Finish(p, req[p],
               Resp(404, NotFound("chauffeur"), req[p].data.chauffeur_id))
       ELSE /\ pc' = [pc EXCEPT ![p] = "checked"]
            /\ UNCHANGED <<req, snap, resp>>
    /\ UNCHANGED <<authVars, activity_log, nreq, bgVars, pipeVars>>

\* create_tarif, create_sst_email: the SELECT of the SST of the body, and
\* the 404
TarifCheck(p) ==
    /\ pc[p] = "authed"
    /\ req[p].op \in {"create_tarif", "create_sst_email"}
    /\ IF req[p].data.sst_id \notin DOMAIN tables["sst"]
       THEN Finish(p, req[p], Resp(404, NotFound("sst"), req[p].data.sst_id))
       ELSE /\ pc' = [pc EXCEPT ![p] = "checked"]
            /\ UNCHANGED <<req, snap, resp>>
    /\ UNCHANGED <<authVars, activity_log, nreq, bgVars, pipeVars>>

\* (variant: a listing does not look at is_active)
ListedAll(op, r, row) ==
    IF op = "list_missions"
    THEN /\ r.data.chauffeur_id # 0 => row.data.chauffeur_id = r.data.chauffeur_id
         /\ r.data.voyage_id # 0 => row.data.voyage_id = r.data.voyage_id
    ELSE TRUE

\* the WHERE clause of a listing: list_chauffeurs, list_voyages and list_sst
\* have active_only; list_missions has the filters chauffeur_id and
\* voyage_id, applied when they are given (the model stays under its
\* default limit of 100 rows)
Listed(op, r, row) ==
    IF op = "list_missions"
    THEN /\ r.data.chauffeur_id # 0 => row.data.chauffeur_id = r.data.chauffeur_id
         /\ r.data.voyage_id # 0 => row.data.voyage_id = r.data.voyage_id
    ELSE r.active_only => row.is_active

\* list_chauffeurs, list_voyages, list_sst, list_missions
ListRows(p) ==
    /\ pc[p] = "authed"
    /\ req[p].op \in ListOps
    /\ LET t == tables[Kind(req[p].op)] IN
       Finish(p, req[p],
          [Resp(200, "list", 0) EXCEPT
              !.body.items = { i \in DOMAIN t : Listed(req[p].op, req[p], t[i]) }])
    /\ UNCHANGED <<authVars, activity_log, nreq, bgVars, pipeVars>>

\* (variant: the first and the last day of an unavailability are left out)
CoversInside(dispo, check_date) ==
    dispo.data.debut < check_date /\ dispo.data.fin > check_date

\* ChauffeurDispo.date_debut <= check_date and date_fin >= check_date
Covers(dispo, check_date) ==
    dispo.data.debut <= check_date /\ dispo.data.fin >= check_date

\* get_chauffeurs_disponibles: the SELECT of the active chauffeurs
DisponiblesLoad(p) ==
    /\ pc[p] = "authed"
    /\ req[p].op = "get_chauffeurs_disponibles"
    /\ snap' = [snap EXCEPT ![p].rows =
           { i \in DOMAIN tables["chauffeur"] : tables["chauffeur"][i].is_active }]
    /\ pc' = [pc EXCEPT ![p] = "selected"]
    /\ UNCHANGED <<req, resp>>
    /\ UNCHANGED <<authVars, activity_log, nreq, bgVars, pipeVars>>

\* get_chauffeurs_disponibles: the SELECT of the unavailabilities that cover
\* check_date, and the two lists
DisponiblesAnswer(p) ==
    /\ pc[p] = "selected"
    /\ LET indispo_ids ==
              { tables["dispo"][i].data.chauffeur_id :
                   i \in { j \in DOMAIN tables["dispo"] :
                              Covers(tables["dispo"][j], req[p].check_date) } }
       IN
       Finish(p, req[p],
          [Resp(200, "disponibles", 0) EXCEPT
              !.body.disponibles = snap[p].rows \ indispo_ids,
              !.body.indisponibles = snap[p].rows \cap indispo_ids])
    /\ UNCHANGED <<authVars, activity_log, nreq, bgVars, pipeVars>>

(***************************************************************************)
(* Specifications                                                          *)
(***************************************************************************)
RawUsernames ==
    { <<9, 68, 79, 77, 92, 85, 115, 101, 114, 49, 160>>,  \* "\tDOM\User1\xa0"
      <<110, 111, 98, 111, 100, 121>> }  \* "nobody"

\* Logins only: lockout and its expiry
NextLogin ==
    \/ \E p \in Procs, raw \in RawUsernames,
          password \in {GoodPassword, WrongPassword} : Login(p, raw, password)
    \/ \E p \in Procs : LoginFailed(p)
    \/ \E p \in Procs : Authenticate(p)
    \/ \E p \in Procs : AuthUnlocked(p)
    \/ \E p \in Procs : AuthReset(p)
    \/ \E p \in Procs : LoginCommit(p)
    \/ \E d \in ClockSteps : Tick(d)
    \/ \E p \in Procs : RequestLog(p)

SpecLogin == Init /\ [][NextLogin]_vars

\* The life of sessions: logins that succeed, and every operation on the
\* sessions table and on the accounts
SessionLogins == { <<97, 100, 109, 105, 110>> }  \* "admin"
PresentedTokens == tokens \cup {ForgedToken}
AuthReq(op, token) == [NoReq EXCEPT !.op = op, !.hdr = TRUE, !.token = token]

\* Handler 1 serves a client (login, me, logout, refresh), handler 2 serves
\* the administration console (force-disconnect, kick, account update).
Client == 1
Console == 2

NextSession ==
    \/ \E raw \in SessionLogins : Login(Client, raw, GoodPassword)
    \/ Authenticate(Client)
    \/ LoginCommit(Client)
    \/ Request(Client, [NoReq EXCEPT !.op = "me"])
    \/ \E t \in PresentedTokens : Request(Client, AuthReq("me", t))
    \/ \E op \in {"logout", "refresh"}, t \in tokens :
          Request(Client, AuthReq(op, t))
    \/ \E t \in tokens :
          Request(Console, [AuthReq("force_disconnect", t) EXCEPT !.target = ADMIN])
    \/ \E t \in tokens, s \in 1..MaxSessions :
          Request(Console, [AuthReq("kick_session", t) EXCEPT !.sid = s])
    \/ \E p \in Procs : ValidateCommit(p)
    \/ \E p \in Procs : ValidateUser(p)
    \/ LogoutSelect(Client)
    \/ Logout(Client)
    \/ LogoutLog(Client)
    \/ RefreshLogout(Client)
    \/ RefreshCreate(Client)
    \/ ForceDisconnectSelect(Console)
    \/ ForceDisconnect(Console)
    \/ ForceDisconnectLog(Console)
    \/ KickSelect(Console)
    \/ KickSession(Console)
    \/ \E d \in {1, access_token_expire_minutes} : Tick(d)
    \/ \E p \in Procs : RequestLog(p)

SpecSession == Init /\ [][NextSession]_vars

\* the Authorization headers a client builds around its token
Schemes == { <<"Bearer">>, <<"bearer">>, <<>>, <<"Bearer", "Bearer">>,
             <<"Bearer", "Token">> }

\* Accounts that are deactivated while their sessions are in use
NextAccount ==
    \/ \E raw \in SessionLogins : Login(Client, raw, GoodPassword)
    \/ Authenticate(Client)
    \/ LoginCommit(Client)
    \/ Request(Client, [NoReq EXCEPT !.op = "me"])
    \/ \E t \in PresentedTokens, scheme \in Schemes :
          Request(Client, [AuthReq("me", t) EXCEPT !.scheme = scheme])
    \/ \E t \in tokens, b \in {"true", "false"} :
          Request(Console, [AuthReq("update_user", t) EXCEPT
                                !.target = ADMIN, !.is_active = b])
    \/ \E t \in tokens, s \in 1..MaxSessions :
          Request(Console, [AuthReq("kick_session", t) EXCEPT !.sid = s])
    \/ \E p \in Procs : ValidateCommit(p)
    \/ \E p \in Procs : ValidateUser(p)
    \/ UpdateUserSelect(Console)
    \/ UpdateUser(Console)
    \/ KickSelect(Console)
    \/ KickSession(Console)
    \/ \E d \in {1, access_token_expire_minutes} : Tick(d)
    \/ \E p \in Procs : RequestLog(p)

SpecAccount == Init /\ [][NextAccount]_vars

(***************************************************************************)
(* WebSocketManager.broadcast, as called by notify_change                  *)
(***************************************************************************)
RECURSIVE Without(_, _)
\* the sequence q without the elements of the set drop
Without(q, drop) ==
    IF q = <<>> THEN <<>>
    ELSE IF Head(q) \in drop THEN Without(Tail(q), drop)
    ELSE <<Head(q)>> \o Without(Tail(q), drop)

\* handler p holds WebSocketManager._lock
HoldsLock(p) == hub_lock # <<>> /\ Head(hub_lock) = p

\* notify_change -> broadcast_data_change -> broadcast: the message is built
\* and the handler enters "async with self._lock" (asyncio.Lock wakes its
\* waiters in arrival order)
BroadcastEnter(p) ==
    /\ pc[p] = "audited"
    /\ published' = Append(published, Envelope(p))
    /\ hub_lock' = Append(hub_lock, p)
    /\ pc' = [pc EXCEPT ![p] = "broadcast"]
    /\ snap' = [snap EXCEPT ![p].cursor = 1, ![p].disconnected = {}]
    /\ UNCHANGED <<authVars, activity_log, nreq, bgVars, storeVars, wsVars,
                   hub_clients, channel, inbox, req, resp>>

\* (variant: the client is never skipped)
SkipsNobody(exclude_client, c) == FALSE

\* broadcast: "if exclude_client and client_id == exclude_client: continue"
\* (0 stands for None)
Skips(exclude_client, c) == exclude_client # 0 /\ c = exclude_client

\* (variant: the clients of the user who made the change are excluded)
ExcludeOriginator(p, c) ==
    \E k \in 1..Len(hub_clients) :
        /\ hub_clients[k].client_id = c
        /\ hub_clients[k].username = snap[p].user.username

\* broadcast_data_change calls broadcast without exclude_client: no client
\* is skipped
ExcludedFromChange(p, c) == Skips(0, c)

\* (variant: the clients whose send failed stay registered)
EvictNobody(registry, disconnected) == registry

\* "for client_id in disconnected: del self._clients[client_id]"
Evict(registry, disconnected) ==
    SelectSeq(registry, LAMBDA e : e.client_id \notin disconnected)

\* one turn of "for client_id, client in self._clients.items()": await
\* send_json returns, or raises on a closed websocket; on a websocket that
\* does not drain it does not return
BroadcastSend(p) ==
    /\ pc[p] = "broadcast"
    /\ HoldsLock(p)
    /\ snap[p].cursor <= Len(hub_clients)
    /\ LET c == hub_clients[snap[p].cursor].client_id IN
       IF ExcludedFromChange(p, c)
       THEN /\ snap' = [snap EXCEPT ![p].cursor = @ + 1]
            /\ UNCHANGED inbox
       ELSE
       /\ channel[c] # "blocked"
       /\ IF channel[c] = "open"
          THEN /\ inbox' = [inbox EXCEPT ![c] = Append(@, Envelope(p))]
               /\ snap' = [snap EXCEPT ![p].cursor = @ + 1]
          ELSE /\ snap' = [snap EXCEPT ![p].cursor = @ + 1,
                                       ![p].disconnected = @ \cup {c}]
               /\ UNCHANGED inbox
    /\ UNCHANGED <<authVars, activity_log, nreq, bgVars, storeVars, wsVars,
                   hub_clients, hub_lock, channel, published, pc, req, resp>>

\* the end of broadcast: the clients whose send failed are removed, the lock
\* is released, and the handler returns its response
BroadcastRelease(p) ==
    /\ pc[p] = "broadcast"
    /\ HoldsLock(p)
    /\ snap[p].cursor > Len(hub_clients)
    /\ hub_clients' = Evict(hub_clients, snap[p].disconnected)
    /\ hub_lock' = Tail(hub_lock)
    /\ Finish(p, req[p], Resp(SuccessStatus(req[p].op), "ok", snap[p].entity_id))
    /\ UNCHANGED <<authVars, activity_log, nreq, bgVars, storeVars, wsVars,
                   channel, inbox, published>>

\* The client drops the connection while the handler is suspended at an
\* await: CancelledError is raised there, "async with" gives the lock back,
\* and nothing that follows in the handler is executed.
Cancel(p) ==
    /\ pc[p] \in {"val_found", "val_committed", "authed", "checked", "loaded",
                  "committed", "refreshed", "audited", "broadcast"}
    /\ hub_lock' = Without(hub_lock, {p})
    /\ Finish(p, req[p], Resp(0, "cancelled", 0))
    /\ UNCHANGED <<authVars, activity_log, nreq, bgVars, storeVars, wsVars,
                   hub_clients, channel, inbox, published>>

\* a client stops reading its websocket, reads again, or goes away
ChannelBlock(c) ==
    /\ channel[c] = "open"
    /\ channel' = [channel EXCEPT ![c] = "blocked"]
    /\ UNCHANGED <<authVars, activity_log, pc, req, snap, resp, nreq, bgVars, storeVars,
                   wsVars,
                   hub_clients, hub_lock, inbox, published>>

ChannelUnblock(c) ==
    /\ channel[c] = "blocked"
    /\ channel' = [channel EXCEPT ![c] = "open"]
    /\ UNCHANGED <<authVars, activity_log, pc, req, snap, resp, nreq, bgVars, storeVars,
                   wsVars,
                   hub_clients, hub_lock, inbox, published>>

ChannelClose(c) ==
    /\ channel[c] # "closed"
    /\ channel' = [channel EXCEPT ![c] = "closed"]
    /\ UNCHANGED <<authVars, activity_log, pc, req, snap, resp, nreq, bgVars, storeVars,
                   wsVars,
                   hub_clients, hub_lock, inbox, published>>

(***************************************************************************)
(* The server in use: ADMIN and USER1 are logged in, and their clients     *)
(* are connected to /ws                                                    *)
(***************************************************************************)
AdminToken == Token(ADMIN, 1, access_token_expire_minutes)
ViewerToken == Token(USER1, 2, access_token_expire_minutes)

InitLoggedIn ==
    /\ now = 0
    /\ ticks = 0
    /\ users = InitUsers
    /\ sessions = (1 :> UserSession(ADMIN, 0, access_token_expire_minutes))
                  @@ (2 :> UserSession(USER1, 0, access_token_expire_minutes))
    /\ next_sid = 3
    /\ tokens = {AdminToken, ViewerToken}
    /\ activity_log = {ActivityLog(ADMIN, "LOGIN", "", 0),
                       ActivityLog(USER1, "LOGIN", "", 0)}

\* WebSocketManager.connect has registered these clients, in this order
InitConnected(registry) ==
    /\ hub_clients = registry
    /\ hub_lock = <<>>
    /\ channel = [i \in 1..Len(registry) |-> "open"]
    /\ inbox = [i \in 1..Len(registry) |-> <<>>]
    /\ published = <<>>
    /\ ws = [w \in WsConns |->
               IF w <= Len(registry)
               THEN [NoWs EXCEPT !.pc = "open", !.hdr = TRUE,
                                 !.token = IF registry[w].username = ADMIN
                                           THEN AdminToken ELSE ViewerToken,
                                 !.username = registry[w].username,
                                 !.client_id = registry[w].client_id]
               ELSE NoWs]
    /\ client_counter = Len(registry)

ConnectedClient(id, username) == [client_id |-> id, username |-> username]

InitPipe ==
    /\ InitLoggedIn
    /\ InitProcs
    /\ InitStore
    /\ InitConnected(<<ConnectedClient(1, USER1)>>)

RawCodes == { <<100, 49>> }  \* "d1"
EntityIds == {1, 2}

\* the requests sent to the mutating endpoints
CreateRequests ==
    { [AuthReq(op, AdminToken) EXCEPT !.raw = code, !.flag = TRUE] :
          op \in {"create_chauffeur", "create_voyage", "create_sst"},
          code \in RawCodes }
    \cup { [AuthReq("create_mission", AdminToken) EXCEPT !.flag = b] :
               b \in BOOLEAN }
UpdateRequests ==
    { [AuthReq(op, AdminToken) EXCEPT
          !.raw = code, !.fields = IF code = <<>> THEN {} ELSE {"code"},
          !.entity_id = id, !.flag = TRUE] :
          op \in {"update_chauffeur", "update_voyage", "update_sst"},
          code \in RawCodes \cup {<<>>}, id \in EntityIds }
    \cup { [AuthReq(op, AdminToken) EXCEPT !.entity_id = id, !.flag = TRUE] :
               op \in {"delete_chauffeur", "delete_mission"}, id \in EntityIds }
RefusedRequests ==
    { [AuthReq(op, ViewerToken) EXCEPT !.raw = code, !.flag = TRUE] :
          op \in {"create_chauffeur", "create_sst"}, code \in RawCodes }
    \cup { [AuthReq("delete_mission", ViewerToken) EXCEPT !.entity_id = 1] }
    \cup { [NoReq EXCEPT !.op = "create_chauffeur", !.raw = code, !.flag = TRUE] :
               code \in RawCodes }

NextPipe ==
    \/ \E p \in Procs, r \in CreateRequests \cup UpdateRequests \cup RefusedRequests :
          Request(p, r)
    \/ \E p \in Procs : ValidateCommit(p)
    \/ \E p \in Procs : ValidateUser(p)
    \/ \E p \in Procs : CreateCheck(p)
    \/ \E p \in Procs : CreateCommit(p)
    \/ \E p \in Procs : UpdateLoad(p)
    \/ \E p \in Procs : UpdateCommit(p)
    \/ \E p \in Procs : Refresh(p)
    \/ \E p \in Procs : AuditCommit(p)
    \/ \E p \in Procs : BroadcastEnter(p)
    \/ \E p \in Procs : BroadcastSend(p)
    \/ \E p \in Procs : BroadcastRelease(p)
    \/ \E p \in Procs : Cancel(p)
    \/ \E p \in Procs : RequestLog(p)

SpecPipe == InitPipe /\ [][NextPipe]_vars

\* The hub with two clients whose websockets may stop draining or close
InitHubInUse ==
    /\ InitLoggedIn
    /\ InitProcs
    /\ InitStore
    /\ InitConnected(<<ConnectedClient(1, USER1), ConnectedClient(2, ADMIN)>>)

NextHub ==
    \/ \E p \in Procs, code \in RawCodes :
          Request(p, [AuthReq("create_chauffeur", AdminToken) EXCEPT
                          !.raw = code, !.flag = TRUE])
    \/ \E p \in Procs :
          Request(p, [AuthReq("delete_chauffeur", AdminToken) EXCEPT
                          !.entity_id = 1, !.flag = TRUE])
    \/ \E p \in Procs : ValidateCommit(p)
    \/ \E p \in Procs : ValidateUser(p)
    \/ \E p \in Procs : CreateCheck(p)
    \/ \E p \in Procs : CreateCommit(p)
    \/ \E p \in Procs : UpdateLoad(p)
    \/ \E p \in Procs : UpdateCommit(p)
    \/ \E p \in Procs : Refresh(p)
    \/ \E p \in Procs : AuditCommit(p)
    \/ \E p \in Procs : BroadcastEnter(p)
    \/ \E p \in Procs : BroadcastSend(p)
    \/ \E p \in Procs : BroadcastRelease(p)
    \/ \E c \in DOMAIN channel : ChannelBlock(c)
    \/ \E c \in DOMAIN channel : ChannelUnblock(c)
    \/ \E c \in DOMAIN channel : ChannelClose(c)
    \/ \E p \in Procs : RequestLog(p)

SpecHub == InitHubInUse /\ [][NextHub]_vars

(***************************************************************************)
(* websocket_endpoint (main.py) and WebSocketManager.connect, disconnect,  *)
(* send_to_client.  A task that must wait for WebSocketManager._lock is    *)
(* queued behind its holder; get_connected_users takes the lock to read the *)
(* registry, and its list is not kept.                                     *)
(***************************************************************************)
Anonymous == <<97, 110, 111, 110, 121, 109, 111, 117, 115>>  \* "anonymous"

\* the place of connection w's task in hub_lock, after those of the handlers
LockId(w) == Cardinality(Procs) + w

\* jwt.decode of PyJWT in websocket_endpoint: the signature is verified
\* first, then the exp claim
ws_jwt_decode(token, t) ==
    IF ~token.sig THEN "InvalidTokenError"
    ELSE IF token.exp <= t THEN "ExpiredSignatureError"
    ELSE "ok"

\* the events broadcast by connect and disconnect; entity_id carries the
\* client_id of the client that attached or detached
UserEvent(type, username, client_id) ==
    [type |-> type, entity |-> "", action |-> "", entity_id |-> client_id,
     changed_by |-> username, rid |-> 0]

\* the messages sent to one client: connected_users, welcome, pong
DirectMessage(type, client_id) == UserEvent(type, <<>>, client_id)

IsRegistered(c) == \E k \in 1..Len(hub_clients) : hub_clients[k].client_id = c

wsOthers == <<authVars, activity_log, pc, req, snap, resp, nreq, bgVars, storeVars>>

\* websocket_endpoint up to "async with self._lock" of connect: the token
\* of the query string is decoded, the connection is refused with 4001 or
\* 4002, or it is accepted under the token's username or as "anonymous"
WsOpen(w, hdr, token) ==
    /\ ws[w].pc = "closed"
    /\ LET outcome == IF hdr THEN ws_jwt_decode(token, now) ELSE "ok" IN
       IF outcome = "ok"
       THEN /\ ws' = [ws EXCEPT ![w] =
                  [NoWs EXCEPT !.pc = "registering", !.hdr = hdr,
                               !.token = IF hdr THEN token ELSE NoToken,
                               !.username = IF hdr THEN token.sub ELSE Anonymous]]
            /\ hub_lock' = Append(hub_lock, LockId(w))
       ELSE /\ ws' = [ws EXCEPT ![w] =
                  [NoWs EXCEPT !.pc = "refused", !.hdr = hdr, !.token = token,
                               !.close_code =
                                   IF outcome = "ExpiredSignatureError"
                                   THEN 4001 ELSE 4002]]
            /\ UNCHANGED hub_lock
    /\ UNCHANGED <<wsOthers, hub_clients, channel, inbox, published, client_counter>>

\* connect: the client is registered under a fresh client_id, the lock is
\* given back and asked for again by broadcast_user_event
WsRegister(w) ==
    /\ ws[w].pc = "registering"
    /\ Head(hub_lock) = LockId(w)
    /\ LET id == client_counter + 1 IN
       /\ client_counter' = id
       /\ hub_clients' = Append(hub_clients, ConnectedClient(id, ws[w].username))
       /\ channel' = channel @@ (id :> "open")
       /\ inbox' = inbox @@ (id :> <<>>)
       /\ ws' = [ws EXCEPT ![w].pc = "announcing", ![w].client_id = id,
                           ![w].cursor = 1, ![w].disconnected = {}]
    /\ hub_lock' = Append(Tail(hub_lock), LockId(w))
    /\ UNCHANGED <<wsOthers, published>>

\* the type of the message that connection w's task is broadcasting
BroadcastType(w) ==
    CASE ws[w].pc = "announcing" -> "user_connected"
      [] ws[w].pc = "messaging" -> "user_message"
      [] OTHER -> "user_disconnected"

\* one turn of the loop of broadcast (user_connected or user_message, all
\* but the client itself) or of _broadcast_internal (user_disconnected)
WsBroadcastSend(w) ==
    /\ ws[w].pc \in {"announcing", "messaging", "farewell"}
    /\ Head(hub_lock) = LockId(w)
    /\ ws[w].cursor <= Len(hub_clients)
    /\ LET c == hub_clients[ws[w].cursor].client_id
           exclude_client == IF ws[w].pc = "farewell" THEN 0 ELSE ws[w].client_id
           message == UserEvent(BroadcastType(w), ws[w].username, ws[w].client_id)
       IN
       IF Skips(exclude_client, c)
       THEN /\ ws' = [ws EXCEPT ![w].cursor = @ + 1]
            /\ UNCHANGED inbox
       ELSE
       /\ channel[c] # "blocked"
       /\ IF channel[c] = "open"
          THEN /\ inbox' = [inbox EXCEPT ![c] = Append(@, message)]
               /\ ws' = [ws EXCEPT ![w].cursor = @ + 1]
          ELSE /\ ws' = [ws EXCEPT ![w].cursor = @ + 1,
                                   ![w].disconnected = @ \cup {c}]
               /\ UNCHANGED inbox
    /\ UNCHANGED <<wsOthers, hub_clients, hub_lock, channel, published, client_counter>>

\* the end of that loop: the clients whose send failed are removed; connect
\* goes on to get_connected_users, the receive loop to receive_json,
\* disconnect returns
WsBroadcastRelease(w) ==
    /\ ws[w].pc \in {"announcing", "messaging", "farewell"}
    /\ Head(hub_lock) = LockId(w)
    /\ ws[w].cursor > Len(hub_clients)
    /\ hub_clients' = Evict(hub_clients, ws[w].disconnected)
    /\ IF ws[w].pc = "announcing"
       THEN /\ hub_lock' = Append(Tail(hub_lock), LockId(w))
            /\ ws' = [ws EXCEPT ![w].pc = "listing_users"]
       ELSE /\ hub_lock' = Tail(hub_lock)
            /\ ws' = [ws EXCEPT ![w].pc =
                         IF ws[w].pc = "messaging" THEN "open" ELSE "gone"]
    /\ UNCHANGED <<wsOthers, channel, inbox, published, client_counter>>

\* get_connected_users: the registry is read under the lock and the lock is
\* given back.  It is called for the argument of send_to_client in connect
\* (which asks for the lock again), for the "connected_users" of the welcome
\* message, and for the answer to a "get_users" message.
WsListUsers(w) ==
    /\ ws[w].pc \in {"listing_users", "welcome_users", "asked_users"}
    /\ Head(hub_lock) = LockId(w)
    /\ IF ws[w].pc = "listing_users"
       THEN /\ hub_lock' = Append(Tail(hub_lock), LockId(w))
            /\ ws' = [ws EXCEPT ![w].pc = "sending_users"]
       ELSE /\ hub_lock' = Tail(hub_lock)
            /\ ws' = [ws EXCEPT ![w].pc =
                         IF ws[w].pc = "welcome_users" THEN "welcoming"
                         ELSE "answering_users"]
    /\ UNCHANGED <<wsOthers, hub_clients, channel, inbox, published, client_counter>>

\* send_to_client(client_id, connected_users): under the lock, and only if
\* the client is still registered; an exception of send_json is swallowed.
\* connect returns, and websocket_endpoint asks for the lock with the
\* get_connected_users of its welcome message.
WsSendUsers(w) ==
    /\ ws[w].pc = "sending_users"
    /\ Head(hub_lock) = LockId(w)
    /\ LET c == ws[w].client_id IN
       /\ IsRegistered(c) => channel[c] # "blocked"
       /\ inbox' = IF IsRegistered(c) /\ channel[c] = "open"
                   THEN [inbox EXCEPT ![c] =
                            Append(@, DirectMessage("connected_users", c))]
                   ELSE inbox
    /\ hub_lock' = Append(Tail(hub_lock), LockId(w))
    /\ ws' = [ws EXCEPT ![w].pc = "welcome_users"]
    /\ UNCHANGED <<wsOthers, hub_clients, channel, published, client_counter>>

\* websocket.send_json(welcome), after get_connected_users has given the
\* lock back; when it raises, the finally-block calls disconnect
WsWelcome(w) ==
    /\ ws[w].pc = "welcoming"
    /\ LET c == ws[w].client_id IN
       /\ channel[c] # "blocked"
       /\ IF channel[c] = "open"
          THEN /\ inbox' = [inbox EXCEPT ![c] =
                               Append(@, DirectMessage("welcome", c))]
               /\ ws' = [ws EXCEPT ![w].pc = "open"]
               /\ UNCHANGED hub_lock
          ELSE /\ ws' = [ws EXCEPT ![w].pc = "leaving"]
               /\ hub_lock' = Append(hub_lock, LockId(w))
               /\ UNCHANGED inbox
    /\ UNCHANGED <<wsOthers, hub_clients, channel, published, client_counter>>

\* the types of message that the receive loop answers
MessageTypes == {"ping", "get_users", "broadcast", "invalid"}

\* receive_json returns a message of the client: for "ping" the pong is
\* sent next, for "get_users" get_connected_users asks for the lock, for
\* "broadcast" WebSocketManager.broadcast("user_message", ...,
\* exclude_client=client_id) does.  For a text that is not a JSON object
\* ("invalid") receive_json or data.get raises: "except Exception" leaves
\* the loop, and the finally-block calls disconnect, which asks for the
\* lock, with the websocket still open.
WsReceive(w, msg_type) ==
    /\ ws[w].pc = "open"
    /\ channel[ws[w].client_id] # "closed"
    /\ ws[w].received < MaxMessages
    /\ IF msg_type = "ping"
       THEN /\ ws' = [ws EXCEPT ![w].pc = "ponging", ![w].received = @ + 1]
            /\ UNCHANGED hub_lock
       ELSE IF msg_type = "invalid"
       THEN /\ ws' = [ws EXCEPT ![w].pc = "leaving", ![w].received = @ + 1]
            /\ hub_lock' = Append(hub_lock, LockId(w))
       ELSE /\ ws' = [ws EXCEPT ![w].pc = IF msg_type = "get_users"
                                          THEN "asked_users" ELSE "messaging",
                                ![w].received = @ + 1,
                                ![w].cursor = 1, ![w].disconnected = {}]
            /\ hub_lock' = Append(hub_lock, LockId(w))
    /\ UNCHANGED <<wsOthers, hub_clients, channel, inbox, published, client_counter>>

\* websocket.send_json of the pong or of the connected_users asked for,
\* outside the lock; when it raises, "except Exception" leaves the loop and
\* the finally-block calls disconnect
WsReply(w) ==
    /\ ws[w].pc \in {"ponging", "answering_users"}
    /\ LET c == ws[w].client_id IN
       /\ channel[c] # "blocked"
       /\ IF channel[c] = "open"
          THEN /\ inbox' = [inbox EXCEPT ![c] =
                               Append(@, DirectMessage(
                                   IF ws[w].pc = "ponging" THEN "pong"
                                   ELSE "connected_users", c))]
               /\ ws' = [ws EXCEPT ![w].pc = "open"]
               /\ UNCHANGED hub_lock
          ELSE /\ ws' = [ws EXCEPT ![w].pc = "leaving"]
               /\ hub_lock' = Append(hub_lock, LockId(w))
               /\ UNCHANGED inbox
    /\ UNCHANGED <<wsOthers, hub_clients, channel, published, client_counter>>

\* receive_json raises WebSocketDisconnect: the finally-block calls
\* disconnect, which asks for the lock
WsLeave(w) ==
    /\ ws[w].pc = "open"
    /\ channel[ws[w].client_id] = "closed"
    /\ ws' = [ws EXCEPT ![w].pc = "leaving"]
    /\ hub_lock' = Append(hub_lock, LockId(w))
    /\ UNCHANGED <<wsOthers, hub_clients, channel, inbox, published, client_counter>>

\* (variant: disconnect announces with broadcast, which asks for the lock)
broadcast_locked(lock, task) == Append(lock, task)

\* _broadcast_internal ("sans lock"): the lock as its caller holds it
broadcast_internal(lock, task) == lock

\* disconnect: "if client_id in self._clients: del self._clients[client_id]"
\* and the start of _broadcast_internal, under the lock
WsLeaveRemove(w) ==
    /\ ws[w].pc = "leaving"
    /\ Head(hub_lock) = LockId(w)
    /\ IF IsRegistered(ws[w].client_id)
       THEN /\ hub_clients' = SelectSeq(hub_clients,
                                 LAMBDA e : e.client_id # ws[w].client_id)
            /\ ws' = [ws EXCEPT ![w].pc = "farewell", ![w].cursor = 1,
                                ![w].disconnected = {}]
            /\ hub_lock' = broadcast_internal(hub_lock, LockId(w))
       ELSE /\ hub_lock' = Tail(hub_lock)
            /\ ws' = [ws EXCEPT ![w].pc = "gone"]
            /\ UNCHANGED hub_clients
    /\ UNCHANGED <<wsOthers, channel, inbox, published, client_counter>>

\* The server with ADMIN and USER1 logged in and nobody connected to /ws
InitWs ==
    /\ InitLoggedIn
    /\ InitProcs
    /\ InitStore
    /\ InitHub

WsTokens == {ViewerToken, ForgedToken}

\* the connections are numbered in the order in which they arrive
Arrives(w) == IF w = 1 THEN TRUE ELSE ws[w - 1].pc # "closed"

\* the client of connection w goes away
WsDrop(w) ==
    /\ ws[w].client_id \in DOMAIN channel
    /\ ChannelClose(ws[w].client_id)

\* the administrator's one call of POST /admin/sessions/disconnect/USER1
ForceDisconnectRequest ==
    /\ resp[Console] = NoResp
    /\ Request(Console, [AuthReq("force_disconnect", AdminToken) EXCEPT
                             !.target = USER1])

\* Clients attach to /ws and go away
NextWs ==
    \/ \E w \in WsConns : Arrives(w) /\ WsOpen(w, FALSE, NoToken)
    \/ \E w \in WsConns, t \in WsTokens : Arrives(w) /\ WsOpen(w, TRUE, t)
    \/ \E w \in WsConns : WsRegister(w)
    \/ \E w \in WsConns : WsBroadcastSend(w)
    \/ \E w \in WsConns : WsBroadcastRelease(w)
    \/ \E w \in WsConns : WsListUsers(w)
    \/ \E w \in WsConns : WsSendUsers(w)
    \/ \E w \in WsConns : WsWelcome(w)
    \/ \E w \in WsConns, t \in MessageTypes : WsReceive(w, t)
    \/ \E w \in WsConns : WsReply(w)
    \/ \E w \in WsConns : WsLeave(w)
    \/ \E w \in WsConns : WsLeaveRemove(w)
    \/ \E w \in WsConns : WsDrop(w)

SpecWs == InitWs /\ [][NextWs]_vars

\* the steps of the hub's operations, each of which is taken by the event
\* loop once its task holds the lock
WsHubSteps ==
    \/ \E w \in WsConns : WsRegister(w)
    \/ \E w \in WsConns : WsBroadcastSend(w)
    \/ \E w \in WsConns : WsBroadcastRelease(w)
    \/ \E w \in WsConns : WsListUsers(w)
    \/ \E w \in WsConns : WsSendUsers(w)
    \/ \E w \in WsConns : WsLeaveRemove(w)

\* The clients of USER1 attach to /ws and go away
NextHubOps ==
    \/ \E w \in WsConns : Arrives(w) /\ WsOpen(w, TRUE, ViewerToken)
    \/ \E w \in WsConns : WsRegister(w)
    \/ \E w \in WsConns : WsBroadcastSend(w)
    \/ \E w \in WsConns : WsBroadcastRelease(w)
    \/ \E w \in WsConns : WsListUsers(w)
    \/ \E w \in WsConns : WsSendUsers(w)
    \/ \E w \in WsConns : WsWelcome(w)
    \/ \E w \in WsConns, t \in MessageTypes : WsReceive(w, t)
    \/ \E w \in WsConns : WsReply(w)
    \/ \E w \in WsConns : WsLeave(w)
    \/ \E w \in WsConns : WsLeaveRemove(w)
    \/ \E w \in WsConns : WsDrop(w)

SpecHubOps == InitWs /\ [][NextHubOps]_vars

FairHubOps == SpecHubOps /\ WF_vars(WsHubSteps)

(***************************************************************************)
(* GET /ws/status (main.py): no authentication.  The two counts are read   *)
(* first, then get_connected_users reads the registry under the lock.      *)
(***************************************************************************)
\* WebSocketManager.connected_count
connected_count(registry) == Len(registry)

\* WebSocketManager.connected_users_count
connected_users_count(registry) ==
    Cardinality({ registry[k].username : k \in 1..Len(registry) })

\* the list that get_connected_users builds from the registry: one entry
\* for each username, with the number of its connections (connected_at is
\* left out, and so is the order of the list)
get_connected_users(registry) ==
    { [username |-> u,
       connections |-> Cardinality({ k \in 1..Len(registry) :
                                        registry[k].username = u })] :
      u \in { registry[k].username : k \in 1..Len(registry) } }

\* the body of GET /ws/status
WsStatusBody(counts, registry) ==
    [Resp(200, "status", 0) EXCEPT
        !.body.connected_clients = counts[1],
        !.body.connected_users = counts[2],
        !.body.users = get_connected_users(registry)]

\* websocket_status: when the lock is free, "async with self._lock" takes
\* it and gives it back without suspending the handler, and the answer is
\* made of one reading of the registry; otherwise the handler waits in the
\* queue of the lock with the counts it has read
WsStatus(p) ==
    /\ Free(p)
    /\ LET r == [NoReq EXCEPT !.op = "ws_status"]
           counts == <<connected_count(hub_clients),
                       connected_users_count(hub_clients)>>
       IN
       IF hub_lock = <<>>
       THEN /\ Finish(p, r, WsStatusBody(counts, hub_clients))
            /\ UNCHANGED hub_lock
       ELSE /\ hub_lock' = Append(hub_lock, p)
            /\ req' = [req EXCEPT ![p] = r]
            /\ resp' = [resp EXCEPT ![p] = NoResp]
            /\ pc' = [pc EXCEPT ![p] = "ws_status"]
            /\ snap' = [snap EXCEPT ![p] = [NoSnap EXCEPT !.counts = counts]]
    /\ UNCHANGED <<authVars, activity_log, nreq, bgVars, storeVars, wsVars,
                   hub_clients, channel, inbox, published>>

\* ... the lock is given to the handler: it reads the registry as it is
\* now, gives the lock back and answers
WsStatusAnswer(p) ==
    /\ pc[p] = "ws_status"
    /\ HoldsLock(p)
    /\ hub_lock' = Tail(hub_lock)
    /\ Finish(p, req[p], WsStatusBody(snap[p].counts, hub_clients))
    /\ UNCHANGED <<authVars, activity_log, nreq, bgVars, storeVars, wsVars,
                   hub_clients, channel, inbox, published>>

\* The administrator creates drivers from the console while the status of
\* the hub is asked for; the websockets of the two clients may stop
\* draining or close
NextStatus ==
    \/ \E code \in RawCodes :
          Request(Console, [AuthReq("create_chauffeur", AdminToken) EXCEPT
                               !.raw = code, !.flag = TRUE])
    \/ ValidateCommit(Console)
    \/ ValidateUser(Console)
    \/ CreateCheck(Console)
    \/ CreateCommit(Console)
    \/ Refresh(Console)
    \/ AuditCommit(Console)
    \/ BroadcastEnter(Console)
    \/ BroadcastSend(Console)
    \/ BroadcastRelease(Console)
    \/ WsStatus(Client)
    \/ WsStatusAnswer(Client)
    \/ \E c \in DOMAIN channel : ChannelBlock(c)
    \/ \E c \in DOMAIN channel : ChannelUnblock(c)
    \/ \E c \in DOMAIN channel : ChannelClose(c)
    \/ \E p \in Procs : RequestLog(p)

SpecStatus == InitHubInUse /\ [][NextStatus]_vars

\* Clients attach to /ws and stay, while time passes and the administrator
\* disconnects USER1
NextWsSession ==
    \/ \E w \in WsConns : Arrives(w) /\ WsOpen(w, FALSE, NoToken)
    \/ \E w \in WsConns, t \in WsTokens : Arrives(w) /\ WsOpen(w, TRUE, t)
    \/ \E w \in WsConns : WsRegister(w)
    \/ \E w \in WsConns : WsBroadcastSend(w)
    \/ \E w \in WsConns : WsBroadcastRelease(w)
    \/ \E w \in WsConns : WsListUsers(w)
    \/ \E w \in WsConns : WsSendUsers(w)
    \/ \E w \in WsConns : WsWelcome(w)
    \/ ForceDisconnectRequest
    \/ ValidateCommit(Console)
    \/ ValidateUser(Console)
    \/ ForceDisconnectSelect(Console)
    \/ ForceDisconnect(Console)
    \/ ForceDisconnectLog(Console)
    \/ Tick(access_token_expire_minutes)
    \/ \E p \in Procs : RequestLog(p)

SpecWsSession == InitWs /\ [][NextWsSession]_vars

\* the steps of the server: every task that can take a step does so
WsServerSteps ==
    \/ \E w \in WsConns : WsRegister(w)
    \/ \E w \in WsConns : WsBroadcastSend(w)
    \/ \E w \in WsConns : WsBroadcastRelease(w)
    \/ \E w \in WsConns : WsListUsers(w)
    \/ \E w \in WsConns : WsSendUsers(w)
    \/ \E w \in WsConns : WsWelcome(w)
    \/ ValidateCommit(Console)
    \/ ValidateUser(Console)
    \/ ForceDisconnectSelect(Console)
    \/ ForceDisconnect(Console)
    \/ ForceDisconnectLog(Console)
    \/ \E p \in Procs : RequestLog(p)

FairWsSession == InitWs /\ [][NextWsSession]_vars /\ WF_vars(WsServerSteps)

(***************************************************************************)
(* Roles, passwords                                                        *)
(***************************************************************************)
\* Roles and privileges: the administrator gives USER1 a role and the
\* is_system_admin privilege or takes it away, USER1 asks GET /auth/me
RoleNames == DOMAIN SeedRoles \cup {"nobody"}

NextRoles ==
    \/ \E r \in RoleNames, a \in {"", "true", "false"} :
          Request(Console, [AuthReq("update_user", AdminToken) EXCEPT
                                !.target = USER1, !.is_active = "true",
                                !.role_name = r, !.is_system_admin = a])
    \/ Request(Client, AuthReq("me", ViewerToken))
    \/ \E p \in Procs : ValidateCommit(p)
    \/ \E p \in Procs : ValidateUser(p)
    \/ UpdateUserSelect(Console)
    \/ UpdateUserRole(Console)
    \/ UpdateUser(Console)
    \/ \E p \in Procs : RequestLog(p)

\* ADMIN and USER1 are logged in, nothing else has happened
InitRoles ==
    /\ InitLoggedIn
    /\ InitProcs
    /\ InitStore
    /\ InitHub

SpecRoles == InitRoles /\ [][NextRoles]_vars

\* Privileges: the administrator gives USER1 a role, USER1 sends
\* PUT /admin/users/{id} for the administrator's account and for its own
NextPrivilege ==
    \/ \E r \in {"admin", "viewer"} :
          Request(Console, [AuthReq("update_user", AdminToken) EXCEPT
                                !.target = USER1, !.is_active = "true",
                                !.role_name = r])
    \/ \E u \in {ADMIN, USER1}, b \in {"true", "false"}, r \in {"", "planner"},
          a \in {"", "true", "false"} :
          Request(Client, [AuthReq("update_user", ViewerToken) EXCEPT
                                !.target = u, !.is_active = b,
                                !.role_name = r, !.is_system_admin = a])
    \/ \E p \in Procs : ValidateCommit(p)
    \/ \E p \in Procs : ValidateUser(p)
    \/ \E p \in Procs : UpdateUserSelect(p)
    \/ \E p \in Procs : UpdateUserRole(p)
    \/ \E p \in Procs : UpdateUser(p)
    \/ \E p \in Procs : RequestLog(p)

SpecPrivilege == InitRoles /\ [][NextPrivilege]_vars

\* Accounts: the administrator is logged in and creates an account,
\* deactivates USER1 or resets its password, from two consoles; USER1 and
\* the new user try to log in
NewUser == <<78, 69, 87>>  \* "NEW"

InitAccounts ==
    /\ now = 0
    /\ ticks = 0
    /\ users = InitUsers
    /\ sessions = (1 :> UserSession(ADMIN, 0, access_token_expire_minutes))
    /\ next_sid = 2
    /\ tokens = {AdminToken}
    /\ activity_log = {ActivityLog(ADMIN, "LOGIN", "", 0)}
    /\ InitProcs
    /\ InitStore
    /\ InitHub

NextAccounts ==
    \/ \E password \in {WrongPassword, generate_temp_password(1)} :
          Login(Client, <<117, 115, 101, 114, 49>>, password)  \* "user1"
    \/ Login(Client, <<110, 101, 119>>, WrongPassword)  \* "new"
    \/ LoginFailed(Client)
    \/ Authenticate(Client)
    \/ AuthReset(Client)
    \/ LoginCommit(Client)
    \/ \E p \in Procs, role \in {"viewer", "nobody"},
          raw \in {<<32, 110, 101, 119>>,  \* " new"
                   <<100, 92, 32, 110, 101, 119>>} :  \* "d\ new"
          Request(p, [AuthReq("create_user", AdminToken) EXCEPT
                         !.raw = raw, !.role_name = role, !.flag = TRUE])
    \/ \E u \in {ADMIN, USER1, NewUser} :
          Request(Console, [AuthReq("delete_user", AdminToken) EXCEPT !.target = u])
    \/ \E u \in {ADMIN, USER1, NewUser} :
          Request(Console, [AuthReq("reset_user_password", AdminToken) EXCEPT
                                !.target = u])
    \/ \E p \in Procs : ValidateCommit(p)
    \/ \E p \in Procs : ValidateUser(p)
    \/ \E p \in Procs : CreateUserCheck(p)
    \/ \E p \in Procs : CreateUser(p)
    \/ \E p \in Procs : CreateUserLog(p)
    \/ DeleteUserSelect(Console)
    \/ DeleteUserCommit(Console)
    \/ DeleteUserSessions(Console)
    \/ DeleteUser(Console)
    \/ ResetPasswordSelect(Console)
    \/ ResetPassword(Console)
    \/ \E p \in Procs : RequestLog(p)

SpecAccounts == InitAccounts /\ [][NextAccounts]_vars

\* Sessions closed from two consoles at once: the administrator and USER1
\* log in and use their tokens for POST /admin/sessions/kick-all,
\* POST /admin/sessions/{id}/kick and POST /admin/sessions/disconnect/ADMIN
NextKickAll ==
    \/ \E p \in Procs, raw \in {<<97, 100, 109, 105, 110>>, <<117, 115, 101, 114, 49>>} :  \* "admin", "user1"
          Login(p, raw, GoodPassword)
    \/ \E p \in Procs : Authenticate(p)
    \/ \E p \in Procs : LoginCommit(p)
    \/ \E p \in Procs, t \in tokens, op \in {"me", "kick_all_sessions"} :
          Request(p, AuthReq(op, t))
    \/ \E p \in Procs, t \in tokens, s \in 1..MaxSessions :
          Request(p, [AuthReq("kick_session", t) EXCEPT !.sid = s])
    \/ \E p \in Procs, t \in tokens :
          Request(p, [AuthReq("force_disconnect", t) EXCEPT !.target = ADMIN])
    \/ \E p \in Procs : ValidateCommit(p)
    \/ \E p \in Procs : ValidateUser(p)
    \/ \E p \in Procs : KickAllSelect(p)
    \/ \E p \in Procs : KickAll(p)
    \/ \E p \in Procs : KickSelect(p)
    \/ \E p \in Procs : KickSession(p)
    \/ \E p \in Procs : ForceDisconnectSelect(p)
    \/ \E p \in Procs : ForceDisconnect(p)
    \/ \E p \in Procs : ForceDisconnectLog(p)
    \/ \E p \in Procs : RequestLog(p)

SpecKickAll == Init /\ [][NextKickAll]_vars

(***************************************************************************)
(* BackupService (services/backup_service.py), its endpoints in            *)
(* routers/admin.py and the background loop of main.py.  datetime.now()    *)
(* is the variable wall; a file name carries it to the second.             *)
(***************************************************************************)
Minute == Resolution
Hour == 60 * Minute
Day == 24 * Hour
Horizon == MaxDays * Day

\* asyncio.sleep(60)
Sleep == Minute

\* the fields of datetime.now() that the loop and strftime read
day_of(t) == t \div Day
hour_of(t) == (t % Day) \div Hour
minute_of(t) == (t % Hour) \div Minute

\* get_backup_filename: "{prefix}_{%Y%m%d_%H%M%S}.db"
get_backup_filename(prefix, t) == <<prefix, t>>

\* the content of the live database file
LiveDb ==
    [users |-> users, sessions |-> sessions, tables |-> tables,
     activity_log |-> activity_log]

\* shutil.copy2 of the live database to the backup directory: the content
\* and the modification time of the source, under the name given; a file
\* of that name is overwritten
copy2(fs, name, mtime) == (name :> [content |-> LiveDb, mtime |-> mtime]) @@ fs

\* create_backup: the directory after it
create_backup(fs, t, mtime) == copy2(fs, get_backup_filename("backup", t), mtime)

\* delete_backup: the directory after "backup_path.unlink()" (the .json
\* file beside a backup, which holds its description, is not followed)
delete_backup(fs, backup_filename) ==
    [n \in DOMAIN fs \ {backup_filename} |-> fs[n]]

\* the files that cleanup_old_backups deletes: the backup_*.db files whose
\* mtime is before the cutoff
OldBackups(fs, t, retention_days) ==
    LET cutoff_date == t - retention_days * Day
    IN { n \in DOMAIN fs : n[1] = "backup" /\ fs[n].mtime < cutoff_date }

\* cleanup_old_backups: the directory after it
cleanup_old_backups(fs, t, retention_days) ==
    [n \in DOMAIN fs \ OldBackups(fs, t, retention_days) |-> fs[n]]

\* d seconds pass: datetime.now() and datetime.utcnow() (in minutes) move on
Elapse(d) ==
    /\ wall' = wall + d
    /\ now' = now + (((wall + d) \div Minute) - (wall \div Minute))

\* (variant: the loop tests the hour only)
BackupDueAllHour(t) == hour_of(t) = auto_backup_hour

\* BackgroundTasks._run: "now.hour == settings.auto_backup_hour and
\* now.minute == 0" (auto_backup_enabled is True)
BackupDue(t) == hour_of(t) = auto_backup_hour /\ minute_of(t) = 0

\* BackgroundTasks._run, one turn of its loop ("while not self._stop"):
\* the check of the time, the backup and the cleanup when it is due, and
\* the sleep; the turn's own work takes "work" seconds.  The loop reads and
\* writes nothing of the database.  The server is followed for MaxDays
\* days.
BackgroundRun(work) ==
    /\ ~stop
    /\ wall + Sleep + work <= Horizon
    /\ files' = IF BackupDue(wall)
                THEN cleanup_old_backups(create_backup(files, wall, db_mtime), wall,
                                         backup_retention_days)
                ELSE files
    /\ Elapse(Sleep + work)
    /\ UNCHANGED <<ticks, users, sessions, next_sid, tokens, activity_log,
                   pc, req, snap, resp, nreq, pipeVars, db_mtime, stop>>

\* BackgroundTasks.stop, which lifespan awaits when the server shuts down:
\* "self._stop = True; self._task.cancel()".  The task is cancelled in its
\* sleep, the only place where it waits, and leaves the loop.
Shutdown ==
    /\ ~stop
    /\ stop' = TRUE
    /\ UNCHANGED <<authVars, activity_log, pc, req, snap, resp, nreq, pipeVars,
                   wall, files, db_mtime>>

SchedulerTurn == \E work \in 0..MaxWork : BackgroundRun(work)

\* The background loop alone, from the midnight before the first backup
\* hour, until the server is shut down; nothing else writes the database
\* meanwhile
NextScheduler ==
    \/ SchedulerTurn
    \/ Shutdown

SpecScheduler == InitRoles /\ [][NextScheduler]_vars

\* the loop writes no table of the database
LoopLeavesDatabase == [][LiveDb' = LiveDb]_vars

\* the server is shut down at the end of the days followed, not before
LateShutdown ==
    /\ wall + Sleep > Horizon
    /\ Shutdown

\* The server that runs for all the days followed: the loop is given all
\* that time
NextFullDays ==
    \/ SchedulerTurn
    \/ LateShutdown

SpecFullDays == InitRoles /\ [][NextFullDays]_vars

\* the event loop runs the task as long as it is not cancelled, and the
\* server is shut down in the end
FairScheduler ==
    SpecFullDays /\ WF_vars(SchedulerTurn) /\ WF_vars(LateShutdown)

\* POST /admin/backups: BackupService.create_backup copies the database
\* file, with the modification time it has, without awaiting anything; the
\* handler keeps the result (the time in it is that of the file name)
CreateBackup(p) ==
    /\ pc[p] = "authed"
    /\ req[p].op = "create_backup"
    /\ files' = create_backup(files, wall, db_mtime)
    /\ pc' = [pc EXCEPT ![p] = "backup_created"]
    /\ snap' = [snap EXCEPT ![p].detail = <<"backup_file", wall>>]
    /\ UNCHANGED <<authVars, activity_log, req, resp, nreq, pipeVars, wall, stop,
                   db_mtime>>

\* ... the commit of the BACKUP_CREATE entry and the answer with the result:
\* "backup_file" is the name of the file (size_bytes and created_at are
\* left out)
CreateBackupLog(p) ==
    /\ pc[p] = "backup_created"
    /\ LogActivity(ActivityLog(snap[p].user.username, "BACKUP_CREATE", "", 0))
    /\ Finish(p, req[p],
          [Resp(200, snap[p].detail[1], snap[p].detail[2]) EXCEPT
              !.body.backup_file =
                  get_backup_filename("backup", snap[p].detail[2])])
    /\ UNCHANGED <<authVars, nreq, wall, stop, files, pipeVars>>

\* POST /admin/backups/restore/{filename}: restore_backup copies the live
\* database to pre_restore_*, then the named file over the live database;
\* both copies are made by shutil.copy2, which gives the copy the
\* modification time of its source
RestoreBackup(p) ==
    /\ pc[p] = "authed"
    /\ req[p].op = "restore_backup"
    /\ IF ~snap[p].user.is_system_admin
       THEN /\ Finish(p, req[p],
                   Resp(403, "Seul un admin systeme peut restaurer un backup", 0))
            /\ UNCHANGED <<users, sessions, tables, activity_log, files, db_mtime>>
       ELSE IF req[p].filename \notin DOMAIN files
       THEN /\ Finish(p, req[p], Resp(404, "Backup non trouve: {}", 0))
            /\ UNCHANGED <<users, sessions, tables, activity_log, files, db_mtime>>
       ELSE LET safety_backup == get_backup_filename("pre_restore", wall)
                saved == copy2(files, safety_backup, db_mtime)
                restored == saved[req[p].filename].content
            IN /\ files' = saved
               /\ db_mtime' = saved[req[p].filename].mtime
               /\ users' = restored.users
               /\ sessions' = restored.sessions
               /\ tables' = restored.tables
               /\ activity_log' = restored.activity_log
               /\ pc' = [pc EXCEPT ![p] = "restored"]
               /\ snap' = [snap EXCEPT ![p].detail = <<"restored_from", wall>>]
               /\ UNCHANGED <<req, resp>>
    /\ UNCHANGED <<now, ticks, next_sid, tokens, nreq, commits, hubVars, wall, stop>>

\* ... the handler then commits its activity_log row to the restored
\* database, and answers with the result of restore_backup: the name of
\* the file restored and that of the safety copy (restored_at is left out)
RestoreBackupLog(p) ==
    /\ pc[p] = "restored"
    /\ LogActivity(ActivityLog(snap[p].user.username, "BACKUP_RESTORE", "", 0))
    /\ Finish(p, req[p],
          [Resp(200, snap[p].detail[1], snap[p].detail[2]) EXCEPT
              !.body.restored_from = req[p].filename,
              !.body.safety_backup =
                  get_backup_filename("pre_restore", snap[p].detail[2])])
    /\ UNCHANGED <<authVars, nreq, wall, stop, files, pipeVars>>

\* DELETE /admin/backups/{filename}: the file of that name in the backup
\* directory is deleted, whatever its prefix; no activity_log row is written
DeleteBackup(p) ==
    /\ pc[p] = "authed"
    /\ req[p].op = "delete_backup"
    /\ IF req[p].filename \notin DOMAIN files
       THEN /\ Finish(p, req[p], Resp(404, "Backup '{}' non trouve", 0))
            /\ UNCHANGED files
       ELSE /\ files' = delete_backup(files, req[p].filename)
            /\ Finish(p, req[p], Resp(200, "Backup '{}' supprime", 0))
    /\ UNCHANGED <<authVars, activity_log, nreq, pipeVars, wall, stop, db_mtime>>

\* POST /admin/backups/cleanup?retention_days=N: the number of days is the
\* caller's, and the answer counts the files deleted
CleanupOldBackups(p) ==
    /\ pc[p] = "authed"
    /\ req[p].op = "cleanup_old_backups"
    /\ files' = cleanup_old_backups(files, wall, req[p].retention_days)
    /\ Finish(p, req[p],
          Resp(200, "{} backup(s) supprime(s)",
               Cardinality(OldBackups(files, wall, req[p].retention_days))))
    /\ UNCHANGED <<authVars, activity_log, nreq, pipeVars, wall, stop, db_mtime>>

\* a second passes
Tock ==
    /\ ticks < MaxTicks
    /\ ticks' = ticks + 1
    /\ Elapse(1)
    /\ UNCHANGED <<users, sessions, next_sid, tokens, activity_log,
                   pc, req, snap, resp, nreq, pipeVars, files, db_mtime,
                   stop>>

\* The administrator and USER1 are logged in; the backup directory holds a
\* snapshot taken a second before USER1 logged in, which was the last write
\* to the database
InitRestore ==
    /\ InitLoggedIn
    /\ InitProcs
    /\ InitHub
    /\ tables = [k \in Kinds |-> [i \in {} |-> NoEntity]]
    /\ commits = <<>>
    /\ wall = 1
    /\ db_mtime = 1
    /\ stop = FALSE
    /\ files = (get_backup_filename("backup", 0) :>
                  [content |->
                      [users |-> InitUsers,
                       sessions |-> (1 :> UserSession(ADMIN, 0, access_token_expire_minutes)),
                       tables |-> [k \in Kinds |-> [i \in {} |-> NoEntity]],
                       activity_log |-> {ActivityLog(ADMIN, "LOGIN", "", 0)}],
                   mtime |-> 0])

\* the numbers of days given to POST /admin/backups/cleanup
RetentionDays == {-1, 0, backup_retention_days}

\* The administrator takes snapshots, restores and deletes files of the
\* backup directory, or a file that is not there, and cleans the directory
\* up; USER1 asks for a restore too
NextRestore ==
    \/ Request(Console, AuthReq("create_backup", AdminToken))
    \/ \E f \in DOMAIN files \cup {get_backup_filename("backup", NoTime)},
          op \in {"restore_backup", "delete_backup"} :
          Request(Console, [AuthReq(op, AdminToken) EXCEPT !.filename = f])
    \/ \E d \in RetentionDays :
          Request(Console, [AuthReq("cleanup_old_backups", AdminToken) EXCEPT
                                !.retention_days = d])
    \/ Request(Client, [AuthReq("restore_backup", ViewerToken) EXCEPT
                            !.filename = get_backup_filename("backup", 0)])
    \/ \E p \in Procs : ValidateCommit(p)
    \/ \E p \in Procs : ValidateUser(p)
    \/ CreateBackup(Console)
    \/ CreateBackupLog(Console)
    \/ RestoreBackup(Console)
    \/ RestoreBackupLog(Console)
    \/ DeleteBackup(Console)
    \/ CleanupOldBackups(Console)
    \/ Tock
    \/ \E p \in Procs : RequestLog(p)

SpecRestore == InitRestore /\ [][NextRestore]_vars

MIN_PASSWORD_LENGTH == 8

\* (variant: a password needs no digit)
validate_password_strength_no_digit(password) ==
    IF Len(password) < MIN_PASSWORD_LENGTH
    THEN "Le mot de passe doit contenir au moins 8 caracteres"
    ELSE IF ~\E i \in 1..Len(password) : isupper(password[i])
    THEN "Le mot de passe doit contenir au moins une majuscule"
    ELSE IF ~\E i \in 1..Len(password) : islower(password[i])
    THEN "Le mot de passe doit contenir au moins une minuscule"
    ELSE ""

\* AuthService.validate_password_strength: the message, "" for a password
\* that is accepted
validate_password_strength(password) ==
    IF Len(password) < MIN_PASSWORD_LENGTH
    THEN "Le mot de passe doit contenir au moins 8 caracteres"
    ELSE IF ~\E i \in 1..Len(password) : isupper(password[i])
    THEN "Le mot de passe doit contenir au moins une majuscule"
    ELSE IF ~\E i \in 1..Len(password) : islower(password[i])
    THEN "Le mot de passe doit contenir au moins une minuscule"
    ELSE IF ~\E i \in 1..Len(password) : isdigit(password[i])
    THEN "Le mot de passe doit contenir au moins un chiffre"
    ELSE ""

\* POST /auth/change-password after get_current_user:
\* AuthService.change_password on the user object the request loaded, up to
\* its commit; a ValueError is answered 400
ChangePassword(p) ==
    /\ pc[p] = "authed"
    /\ req[p].op = "change_password"
    /\ LET user == snap[p].user
           u == user.username
           message == validate_password_strength(req[p].new_password)
       IN
       IF ~verify_password(req[p].password, user.password_hash)
       THEN /\ Finish(p, req[p], Resp(400, "Mot de passe actuel incorrect", 0))
            /\ UNCHANGED <<users, db_mtime>>
       ELSE IF message # ""
       THEN /\ Finish(p, req[p], Resp(400, message, 0))
            /\ UNCHANGED <<users, db_mtime>>
       ELSE IF verify_password(req[p].new_password, user.password_hash)
       THEN /\ Finish(p, req[p],
                  Resp(400, "Le nouveau mot de passe doit etre different de l'ancien", 0))
            /\ UNCHANGED <<users, db_mtime>>
       ELSE /\ users' = [users EXCEPT ![u] =
                  Flush(@, user,
                        [user EXCEPT
                            !.password_hash = hash_password(req[p].new_password),
                            !.must_change_password = FALSE])]
            /\ pc' = [pc EXCEPT ![p] = "password_changed"]
            /\ Written
            /\ UNCHANGED <<req, snap, resp>>
    /\ UNCHANGED <<now, ticks, sessions, next_sid, tokens, activity_log, nreq,
                   wall, stop, files, pipeVars>>

\* ... the commit of the PASSWORD_CHANGED entry and the answer
ChangePasswordLog(p) ==
    /\ pc[p] = "password_changed"
    /\ LogActivity(ActivityLog(snap[p].user.username, "PASSWORD_CHANGED", "", 0))
    /\ Finish(p, req[p], Resp(200, "Mot de passe modifie avec succes", 0))
    /\ UNCHANGED <<authVars, nreq, wall, stop, files, pipeVars>>

\* the passwords USER1 tries: one that is accepted, and one for each rule
\* of validate_password_strength
NewPassword == <<78, 101, 119, 80, 97, 115, 115, 49>>  \* "NewPass1"
Passwords ==
    { GoodPassword, NewPassword,
      <<65, 98, 99, 100, 101, 102, 49>>,  \* "Abcdef1"
      <<112, 97, 115, 115, 119, 48, 114, 100>>,  \* "passw0rd"
      <<80, 65, 83, 83, 87, 48, 82, 68>>,  \* "PASSW0RD"
      <<80, 97, 115, 115, 119, 111, 114, 100>>,  \* "Password"
      <<201, 112, 97, 115, 115, 119, 114, 178>> }  \* "\xc9passwr\xb2"

\* USER1 changes the password, from two clients at once
NextPassword ==
    \/ \E p \in Procs, current \in {GoodPassword, NewPassword, WrongPassword},
          new \in Passwords :
          Request(p, [AuthReq("change_password", ViewerToken) EXCEPT
                         !.password = current, !.new_password = new])
    \/ \E p \in Procs : ValidateCommit(p)
    \/ \E p \in Procs : ValidateUser(p)
    \/ \E p \in Procs : ChangePassword(p)
    \/ \E p \in Procs : ChangePasswordLog(p)
    \/ \E p \in Procs : RequestLog(p)

SpecPassword == InitRoles /\ [][NextPassword]_vars

(***************************************************************************)
(* The planning in use: drivers, a route and a subcontractor with missions *)
(* that refer to them, and an unavailability                               *)
(***************************************************************************)
Mission(voyage_id, chauffeur_id, sst_id) ==
    [EntityRow(<<>>, ADMIN) EXCEPT
        !.data = [NoData EXCEPT !.voyage_id = voyage_id,
                                !.chauffeur_id = chauffeur_id,
                                !.sst_id = sst_id]]

ChauffeurDispo(chauffeur_id, date_debut, date_fin) ==
    NewRow("dispo", <<>>, ADMIN, TRUE,
           [NoData EXCEPT !.chauffeur_id = chauffeur_id,
                          !.debut = date_debut, !.fin = date_fin])

\* the days of the calendar that are asked about
Dates == 1..4

InitPlanning ==
    /\ InitLoggedIn
    /\ InitProcs
    /\ InitConnected(<<ConnectedClient(1, USER1)>>)
    /\ tables =
          [k \in Kinds |->
             CASE k = "chauffeur" ->
                    (1 :> EntityRow(<<67, 49>>, ADMIN))  \* "C1"
                    @@ (2 :> EntityRow(<<67, 50>>, ADMIN))  \* "C2"
               [] k = "voyage" -> (1 :> EntityRow(<<86, 49>>, ADMIN))  \* "V1"
               [] k = "sst" -> (1 :> NewRow("sst", <<83, 49>>, ADMIN, TRUE, NoData))  \* "S1"
               [] k = "mission" ->
                    (1 :> Mission(1, 1, 1)) @@ (2 :> Mission(1, 2, 0))
                    @@ (3 :> Mission(0, 0, 0))
               [] k = "dispo" -> (1 :> ChauffeurDispo(1, 2, 3))
               [] OTHER -> [i \in {} |-> NoEntity]]
    /\ commits = <<>>
    /\ wall = 0
    /\ files = <<>>
    /\ db_mtime = 0
    /\ stop = FALSE

\* the administrator deactivates a driver, the route or the subcontractor,
\* deletes a mission, or enters or deletes an unavailability; a client asks
\* for listings meanwhile
NextPlanning ==
    \/ \E r \in
          { [AuthReq("delete_chauffeur", AdminToken) EXCEPT !.entity_id = id] :
                id \in {1, 2} }
          \cup { [AuthReq(op, AdminToken) EXCEPT !.entity_id = 1] :
                     op \in {"delete_voyage", "delete_sst",
                             "delete_disponibilite"} }
          \cup { [AuthReq("delete_mission", AdminToken) EXCEPT !.entity_id = 3] }
          \cup { [AuthReq("create_disponibilite", AdminToken) EXCEPT
                     !.flag = TRUE,
                     !.data = [NoData EXCEPT !.chauffeur_id = c,
                                             !.debut = d[1], !.fin = d[2]]] :
                     c \in {2, 3}, d \in {<<1, 2>>, <<4, 3>>} } :
          Request(Console, r)
    \/ \E r \in
          { [AuthReq(op, AdminToken) EXCEPT !.active_only = b] :
                op \in {"list_chauffeurs", "list_voyages", "list_sst"}, b \in BOOLEAN }
          \cup { [AuthReq("list_missions", AdminToken) EXCEPT !.data.voyage_id = v] :
                     v \in {0, 1} }
          \cup { [AuthReq("get_chauffeurs_disponibles", AdminToken) EXCEPT
                     !.check_date = d] : d \in Dates } :
          Request(Client, r)
    \/ \E p \in Procs : ValidateCommit(p)
    \/ \E p \in Procs : ValidateUser(p)
    \/ UpdateLoad(Console)
    \/ UpdateCommit(Console)
    \/ DispoCheck(Console)
    \/ CreateCommit(Console)
    \/ Refresh(Console)
    \/ AuditCommit(Console)
    \/ BroadcastEnter(Console)
    \/ BroadcastSend(Console)
    \/ BroadcastRelease(Console)
    \/ ListRows(Client)
    \/ DisponiblesLoad(Client)
    \/ DisponiblesAnswer(Client)
    \/ \E p \in Procs : RequestLog(p)

SpecPlanning == InitPlanning /\ [][NextPlanning]_vars

(***************************************************************************)
(* Missions entered and edited by two clients at once                      *)
(***************************************************************************)
GoodBody == [NoData EXCEPT !.nb_palettes = 3, !.debut = 8, !.fin = 17]

\* the bodies sent to create_mission (MissionCreate), update_mission
\* (MissionUpdate: the fields that are set, and their values) and
\* create_missions_bulk; the times of day are counted in hours (the columns
\* hold them as "HH:MM")
MissionRequests ==
    { [AuthReq("create_mission", AdminToken) EXCEPT
          !.flag = TRUE,
          !.data = [NoData EXCEPT !.nb_palettes = n, !.debut = t[1], !.fin = t[2]]] :
          n \in {-1, 3}, t \in {<<NoTime, NoTime>>, <<8, 17>>, <<17, 8>>} }
    \cup { [AuthReq("create_mission", AdminToken) EXCEPT !.flag = FALSE] }
    \cup { [AuthReq("create_mission", AdminToken) EXCEPT
               !.flag = TRUE, !.data = [GoodBody EXCEPT !.voyage_id = 1]] }
    \cup { [AuthReq("update_mission", AdminToken) EXCEPT
               !.entity_id = id, !.fields = u.fields, !.data = u.data] :
               id \in {1, 2},
               u \in { [fields |-> {"nb_palettes"},
                        data |-> [NoData EXCEPT !.nb_palettes = -1]],
                       [fields |-> {"debut"},
                        data |-> [NoData EXCEPT !.debut = 18]],
                       [fields |-> {"chauffeur_id"},
                        data |-> [NoData EXCEPT !.chauffeur_id = 2]],
                       [fields |-> {"nb_palettes", "debut", "fin"},
                        data |-> GoodBody] } }
    \cup { [AuthReq("delete_mission", AdminToken) EXCEPT !.entity_id = id] :
               id \in {1, 2} }
    \cup { [AuthReq("create_missions_bulk", AdminToken) EXCEPT !.items = l] :
               l \in { <<>>, <<GoodBody>>,
                       <<GoodBody, [GoodBody EXCEPT !.nb_palettes = -1]>>,
                       <<[GoodBody EXCEPT !.debut = 18]>> } }

NextMissions ==
    \/ \E p \in Procs, r \in MissionRequests : Request(p, r)
    \/ \E p \in Procs : ValidateCommit(p)
    \/ \E p \in Procs : ValidateUser(p)
    \/ \E p \in Procs : CreateCommit(p)
    \/ \E p \in Procs : BulkCommit(p)
    \/ \E p \in Procs : UpdateLoad(p)
    \/ \E p \in Procs : UpdateCommit(p)
    \/ \E p \in Procs : Refresh(p)
    \/ \E p \in Procs : AuditCommit(p)
    \/ \E p \in Procs : RequestLog(p)

SpecMissions == InitRoles /\ [][NextMissions]_vars

(***************************************************************************)
(* Rows deleted while another handler works on them                        *)
(***************************************************************************)
\* two clients of the administrator create, change and delete the same
\* missions, unavailabilities and subcontractors
RemovalRequests ==
    { [AuthReq(op, AdminToken) EXCEPT !.entity_id = id] :
          op \in {"delete_mission"}, id \in {3, 4} }
    \cup { [AuthReq("delete_disponibilite", AdminToken) EXCEPT !.entity_id = id] :
               id \in {1, 2} }
    \cup { [AuthReq("update_mission", AdminToken) EXCEPT
               !.entity_id = 3, !.fields = {"nb_palettes"},
               !.data = [NoData EXCEPT !.nb_palettes = 3]],
           [AuthReq("create_mission", AdminToken) EXCEPT
               !.flag = TRUE, !.data = GoodBody],
           [AuthReq("create_missions_bulk", AdminToken) EXCEPT
               !.items = <<GoodBody>>],
           [AuthReq("create_disponibilite", AdminToken) EXCEPT
               !.flag = TRUE,
               !.data = [NoData EXCEPT !.chauffeur_id = 2,
                                       !.debut = 1, !.fin = 2]],
           [AuthReq("create_sst", AdminToken) EXCEPT
               !.raw = <<115, 50>>, !.flag = TRUE],  \* "s2"
           [AuthReq("update_sst", AdminToken) EXCEPT
               !.raw = <<115, 50>>, !.fields = {"code"}, !.entity_id = 1,
               !.flag = TRUE] }

NextRemovals ==
    \/ \E p \in Procs, r \in RemovalRequests : Request(p, r)
    \/ \E p \in Procs : ValidateCommit(p)
    \/ \E p \in Procs : ValidateUser(p)
    \/ \E p \in Procs : CreateCheck(p)
    \/ \E p \in Procs : DispoCheck(p)
    \/ \E p \in Procs : CreateCommit(p)
    \/ \E p \in Procs : BulkCommit(p)
    \/ \E p \in Procs : UpdateLoad(p)
    \/ \E p \in Procs : UpdateCommit(p)
    \/ \E p \in Procs : Refresh(p)
    \/ \E p \in Procs : AuditCommit(p)
    \/ \E p \in Procs : BroadcastEnter(p)
    \/ \E p \in Procs : BroadcastSend(p)
    \/ \E p \in Procs : BroadcastRelease(p)
    \/ \E p \in Procs : RequestLog(p)

SpecRemovals == InitPlanning /\ [][NextRemovals]_vars

(***************************************************************************)
(* Tariffs and pallet revenues (routers/sst.py, routers/finance.py)        *)
(***************************************************************************)
\* two clients of the administrator enter, change and delete tariffs and
\* e-mail addresses of a subcontractor, and pallet revenues
FinanceRequests ==
    { [AuthReq("create_tarif", AdminToken) EXCEPT
          !.flag = TRUE, !.is_active = a, !.data = [NoData EXCEPT !.sst_id = id]] :
          a \in {"", "false"}, id \in {1, 2} }
    \cup { [AuthReq(op, AdminToken) EXCEPT !.entity_id = 1, !.is_active = a] :
               op \in {"update_tarif", "update_revenu_palette"},
               a \in {"", "false"} }
    \cup { [AuthReq(op, AdminToken) EXCEPT
               !.entity_id = 1, !.fields = {k}, !.nulls = {k}] :
               op \in {"update_tarif", "update_revenu_palette"},
               k \in {"code", "is_active"} }
    \cup { [AuthReq(op, AdminToken) EXCEPT
               !.entity_id = 1, !.fields = {"code"},
               !.raw = <<116, 49>>] :  \* "t1"
               op \in {"update_tarif", "update_revenu_palette"} }
    \cup { [AuthReq(op, AdminToken) EXCEPT !.entity_id = 1] :
               op \in {"delete_tarif", "delete_revenu_palette",
                       "delete_sst_email"} }
    \cup { [AuthReq("create_sst_email", AdminToken) EXCEPT
               !.flag = TRUE, !.data = [NoData EXCEPT !.sst_id = id]] :
               id \in {1, 2} }
    \cup { [AuthReq("create_revenu_palette", AdminToken) EXCEPT !.flag = TRUE] }

NextFinance ==
    \/ \E p \in Procs, r \in FinanceRequests : Request(p, r)
    \/ \E p \in Procs : ValidateCommit(p)
    \/ \E p \in Procs : ValidateUser(p)
    \/ \E p \in Procs : TarifCheck(p)
    \/ \E p \in Procs : CreateCommit(p)
    \/ \E p \in Procs : UpdateLoad(p)
    \/ \E p \in Procs : UpdateCommit(p)
    \/ \E p \in Procs : Refresh(p)
    \/ \E p \in Procs : AuditCommit(p)
    \/ \E p \in Procs : RequestLog(p)

SpecFinance == InitPlanning /\ [][NextFinance]_vars

(***************************************************************************)
(* The bodies of POST and PUT on drivers, routes and subcontractors        *)
(***************************************************************************)
\* a driver is created inactive, and a client sets code and is_active of
\* the drivers, the route and the subcontractor: to a value, to the empty
\* string, to null
BodyRequests ==
    { [AuthReq(op, AdminToken) EXCEPT
          !.raw = <<100, 49>>, !.flag = TRUE, !.is_active = "false"] :  \* "d1"
          op \in {"create_chauffeur", "create_voyage", "create_sst"} }
    \cup { [AuthReq(op, AdminToken) EXCEPT
               !.entity_id = 1, !.fields = b.fields, !.nulls = b.nulls,
               !.is_active = b.is_active] :
               op \in {"update_chauffeur", "update_voyage", "update_sst"},
               b \in { [fields |-> {"code"}, nulls |-> {}, is_active |-> ""],
                       [fields |-> {"code"}, nulls |-> {"code"}, is_active |-> ""],
                       [fields |-> {"is_active"}, nulls |-> {}, is_active |-> "false"],
                       [fields |-> {"is_active"}, nulls |-> {}, is_active |-> "true"],
                       [fields |-> {"is_active"}, nulls |-> {"is_active"},
                        is_active |-> ""] } }

NextBodies ==
    \/ \E r \in BodyRequests : Request(Console, r)
    \/ ValidateCommit(Console)
    \/ ValidateUser(Console)
    \/ CreateCheck(Console)
    \/ CreateCommit(Console)
    \/ UpdateLoad(Console)
    \/ UpdateCommit(Console)
    \/ Refresh(Console)
    \/ AuditCommit(Console)
    \/ BroadcastEnter(Console)
    \/ BroadcastSend(Console)
    \/ BroadcastRelease(Console)
    \/ \E p \in Procs : RequestLog(p)

SpecBodies == InitPlanning /\ [][NextBodies]_vars

(***************************************************************************)
(* Properties                                                              *)
(***************************************************************************)
\* handler p takes a step
Moves(p) == <<pc[p], req[p], resp[p]>>' # <<pc[p], req[p], resp[p]>>

LockedMessage == "Compte verrouille. Reessayez dans {} minutes."
InvalidToken == "Token invalide ou expire"

\* C1: a login that finds the account locked (the locked_until it loaded is
\* later than now) is answered 401 in its next step, which creates neither
\* a session nor a token and leaves the account as it is, whatever password
\* the login supplies.
C1_LockedLoginRejected ==
    [][\A p \in Procs :
          (/\ pc[p] = "auth_loaded"
           /\ Moves(p)
           /\ snap[p].user.locked_until > now)
          => (/\ pc'[p] = "done"
              /\ resp'[p].status = 401
              /\ users' = users
              /\ sessions' = sessions
              /\ tokens' = tokens)]_vars

\* five wrong passwords have locked USER1, and a login with the correct
\* password was then answered "locked"
C1_Witness ==
    \E p \in Procs :
        /\ pc[p] = "done"
        /\ req[p].password = GoodPassword
        /\ resp[p].status = 401
        /\ resp[p].detail[1] = LockedMessage
        /\ users[USER1].failed_login_attempts = MAX_FAILED_ATTEMPTS
        /\ users[USER1].locked_until > now
        /\ DOMAIN sessions = {}

\* a session id that was issued and is now deleted, revoked or expired
Dead(s) ==
    \/ s \notin DOMAIN sessions
    \/ ~sessions[s].is_active
    \/ sessions[s].expires_at <= now

\* C2: a session that is revoked, expired or deleted stays so in every
\* step, and a validation lookup only ever accepts the token of a session
\* that is active and not expired when it is looked up.
C2_RevokedStaysRevoked ==
    [][/\ \A s \in 1..(next_sid - 1) : Dead(s) => Dead(s)'
       /\ \A p \in Procs :
             (pc[p] # "val_found" /\ pc'[p] = "val_found")
             => ~Dead(req'[p].token.session_id)]_vars

\* a session whose last_activity was rewritten by a validation was revoked
\* afterwards, and its token was then refused
C2_Witness ==
    \E s \in DOMAIN sessions :
        /\ ~sessions[s].is_active
        /\ sessions[s].last_activity > sessions[s].created_at
        /\ sessions[s].expires_at > now
        /\ pc[Client] = "done"
        /\ req[Client].token.session_id = s
        /\ req[Client].token.sig
        /\ resp[Client] = Resp(401, InvalidToken, 0)

\* the token names a session that is active and not expired
SessionValid(token) ==
    /\ token.session_id \in DOMAIN sessions
    /\ sessions[token.session_id].is_active
    /\ now < sessions[token.session_id].expires_at

\* C3: validation returns a user only when the user of the session is
\* active, and rejects the token with 401 otherwise: of a request whose
\* session was found active and unexpired, the one whose user is active is
\* not answered 401 and the one whose user is inactive is answered 401.
C3_AsStated ==
    [][\A p \in Procs :
          (pc[p] = "val_committed" /\ Moves(p))
             => IF users[req[p].token.sub].is_active
                THEN resp'[p].status # 401
                ELSE resp'[p].status = 401]_vars

\* what validate_token and get_current_user do: the lookup accepts the
\* token of a header "Bearer <token>" exactly when it is well signed and its
\* session is active and not expired, and the request is answered 401
\* otherwise (also when the header does not start with "Bearer "); the
\* lookup does not read the user.  After the lookup, a request whose
\* session row has been deleted fails with 500 at the write of
\* last_activity; after that write the user is read, a request whose user
\* is then inactive is answered 403, and every other request passes
\* authentication.
ValidationSteps ==
    [][\A p \in Procs :
          /\ (Free(p) /\ Moves(p) /\ req'[p].hdr)
             => LET token == BearerToken(req'[p]) IN
                /\ (pc'[p] = "val_found")
                      <=> (/\ StartsWithBearer(req'[p])
                           /\ token.sig
                           /\ SessionValid(token))
                /\ (pc'[p] # "val_found")
                      => /\ pc'[p] = "done"
                         /\ resp'[p] = IF StartsWithBearer(req'[p])
                                       THEN Resp(401, InvalidToken, 0)
                                       ELSE Resp(401, "Format de token invalide", 0)
          /\ (pc[p] = "val_found" /\ Moves(p))
             => IF snap[p].sid \notin DOMAIN sessions
                THEN pc'[p] = "done" /\ resp'[p].status = 500
                ELSE pc'[p] = "val_committed"
          /\ (pc[p] = "val_committed" /\ Moves(p))
             => IF ~users[req[p].token.sub].is_active
                THEN /\ pc'[p] = "done"
                     /\ resp'[p] = Resp(403, "Compte utilisateur desactive", 0)
                ELSE \/ pc'[p] = "authed"
                     \/ pc'[p] = "done" /\ resp'[p].status = 200
                     \/ /\ pc'[p] = "done"
                        /\ resp'[p] = Resp(403, "Permission '{}' requise", 0)]_vars

\* the account was deactivated while its session is still active and
\* unexpired, and a request with that session's token was answered 403
InactiveUserRefused ==
    /\ pc[Client] = "done"
    /\ resp[Client] = Resp(403, "Compte utilisateur desactive", 0)
    /\ SessionValid(req[Client].token)
    /\ ~users[req[Client].token.sub].is_active

\* the mutation of request rid has been committed
Committed(rid) == \E i \in 1..Len(commits) : commits[i].rid = rid

\* the position of request rid's mutation in the commit order
CommitIndex(rid) == CHOOSE i \in 1..Len(commits) : commits[i].rid = rid

\* an audit row, or an envelope, of request rid exists
Audited(rid) == \E a \in activity_log : a.rid = rid
Published(rid) == \E i \in 1..Len(published) : published[i].rid = rid

\* C4: for every client and every entity, the data_changed envelopes the
\* client has received for the entity are in the order in which their
\* mutations were committed.
C4_EnvelopesInCommitOrder ==
    \A c \in DOMAIN inbox :
        \A i, j \in 1..Len(inbox[c]) :
            (/\ i < j
             /\ inbox[c][i].entity = inbox[c][j].entity
             /\ inbox[c][i].entity_id = inbox[c][j].entity_id)
            => CommitIndex(inbox[c][i].rid) < CommitIndex(inbox[c][j].rid)

\* C5: when a mutating request has been answered with success, a
\* data_changed envelope for its mutation has been published to the hub.
C5_CommittedMutationPublished ==
    \A p \in Procs :
        (/\ pc[p] = "done"
         /\ req[p].rid > 0
         /\ resp[p].status \in {200, 201})
        => Published(req[p].rid)

\* C6: when a handler was cancelled after its mutation was committed, the
\* audit row of the mutation exists, and so does its envelope if the
\* handler is one that publishes.
C6_CancelledAfterCommitCompletes ==
    \A p \in Procs :
        (/\ pc[p] = "done"
         /\ resp[p] = Resp(0, "cancelled", 0)
         /\ Committed(req[p].rid))
        => /\ Audited(req[p].rid)
           /\ commits[CommitIndex(req[p].rid)].entity = "chauffeur"
                 => Published(req[p].rid)

\* C7: every audit row and every envelope of a mutating request belongs to
\* a committed mutation, and a request answered 400, 401, 403, 404 or 422,
\* or cancelled before its commit, has left no audit row and no envelope.
C7_AuditOnlyAfterCommit ==
    /\ \A a \in activity_log : a.rid > 0 => Committed(a.rid)
    /\ \A i \in 1..Len(published) : Committed(published[i].rid)
    /\ \A c \in DOMAIN inbox :
          \A i \in 1..Len(inbox[c]) : Committed(inbox[c][i].rid)
    /\ \A p \in Procs :
          (/\ pc[p] = "done"
           /\ req[p].rid > 0
           /\ \/ resp[p].status \in {400, 401, 403, 404, 422}
              \/ resp[p] = Resp(0, "cancelled", 0) /\ ~Committed(req[p].rid))
          => ~Audited(req[p].rid) /\ ~Published(req[p].rid)

\* one request was refused and has left nothing, while another one has
\* committed, was logged and has reached the client
C7_Witness ==
    /\ \E p \in Procs :
          /\ pc[p] = "done"
          /\ req[p].rid > 0
          /\ resp[p].status \in {400, 403, 404}
          /\ ~Audited(req[p].rid)
    /\ \E i \in 1..Len(commits) :
          /\ Audited(commits[i].rid)
          /\ \E c \in DOMAIN inbox : \E k \in 1..Len(inbox[c]) :
                inbox[c][k].rid = commits[i].rid

\* C8: no two drivers share a code, no two routes share a code, and no two
\* subcontractors share a code.
C8_CodesUnique ==
    \A kind \in {"chauffeur", "voyage", "sst"} :
        \A i, j \in DOMAIN tables[kind] :
            i # j => tables[kind][i].code # tables[kind][j].code

\* C9: a request that creates a driver, a route or a subcontractor and is
\* answered 201 has created the only row with its code, and one that is not
\* created because the code is taken is answered 409.
C9_OneCreatedOthersConflict ==
    [][\A p \in Procs :
          (/\ pc[p] \in {"authed", "checked", "committed", "broadcast"}
           /\ req[p].op \in {"create_chauffeur", "create_voyage", "create_sst"}
           /\ pc'[p] = "done"
           /\ resp'[p] # Resp(0, "cancelled", 0))
          => IF resp'[p].status = 201
             THEN WithCode(Kind(req[p].op), upper(req[p].raw))
                      = {snap[p].entity_id}
             ELSE resp'[p].status = 409]_vars

\* C10: while a broadcast waits for a client that does not drain its
\* websocket, every other registered client with an open websocket has
\* already received the envelope, and no other publish waits for the lock.
C10_BlockedClientDelaysNobody ==
    \A p \in Procs :
        (/\ pc[p] = "broadcast"
         /\ HoldsLock(p)
         /\ snap[p].cursor <= Len(hub_clients)
         /\ channel[hub_clients[snap[p].cursor].client_id] = "blocked")
        => /\ Len(hub_lock) = 1
           /\ \A k \in 1..Len(hub_clients) :
                 LET c == hub_clients[k].client_id IN
                 (k # snap[p].cursor /\ channel[c] = "open")
                 => \E i \in 1..Len(inbox[c]) : inbox[c][i].rid = req[p].rid

\* the session named by a token is missing, inactive or expired
TokenDead(token) == Dead(token.session_id)

\* a step in which handler p receives a request that carries a token whose
\* session is dead answers it 401
DeadTokenRefused(p) ==
    (Free(p) /\ Moves(p) /\ req'[p].hdr /\ TokenDead(req'[p].token))
    => (pc'[p] = "done" /\ resp'[p] = Resp(401, InvalidToken, 0))

\* session id s is dead after the step
DeadNext(s) ==
    \/ s \notin DOMAIN sessions'
    \/ ~sessions'[s].is_active
    \/ sessions'[s].expires_at <= now'

ForceDisconnected == "{} session(s) fermee(s) pour {}"

\* C11: a force-disconnect of U selects every session of U that is active,
\* its commit leaves every selected session inactive, the step that follows
\* answers 200 with their number, no inactive session becomes active again,
\* and every request received with the token of an inactive session is
\* answered 401.
C11_ForceDisconnectRevokesAll ==
    [][/\ \A p \in Procs :
             (pc[p] = "authed" /\ req[p].op = "force_disconnect"
                /\ pc'[p] # "authed")
             => \A s \in DOMAIN sessions :
                   (/\ sessions[s].user = normalize_username(req[p].target)
                    /\ sessions[s].is_active)
                   => s \in snap'[p].rows
       /\ \A p \in Procs :
             (pc[p] = "disconnect_found" /\ pc'[p] = "disconnected")
             => \A s \in snap[p].rows :
                   s \in DOMAIN sessions' /\ ~sessions'[s].is_active
       /\ \A p \in Procs :
             (pc[p] = "disconnected" /\ Moves(p))
             => /\ resp'[p] = Resp(200, ForceDisconnected,
                                   Cardinality(snap[p].rows))
                /\ \A s \in snap[p].rows : DeadNext(s)
       /\ \A s \in DOMAIN sessions :
             ~sessions[s].is_active
             => (s \notin DOMAIN sessions' \/ ~sessions'[s].is_active)
       /\ \A p \in Procs : DeadTokenRefused(p)]_vars

\* ADMIN held two sessions, a force-disconnect closed both, and a request
\* with the token of one of them was then answered 401
C11_Witness ==
    /\ pc[Console] = "done"
    /\ resp[Console] = Resp(200, ForceDisconnected, 2)
    /\ Cardinality(DOMAIN sessions) = 2
    /\ \A s \in DOMAIN sessions :
          /\ sessions[s].user = ADMIN
          /\ ~sessions[s].is_active
          /\ sessions[s].expires_at > now
    /\ pc[Client] = "done"
    /\ req[Client].token.sig
    /\ req[Client].token.session_id = 2
    /\ resp[Client] = Resp(401, InvalidToken, 0)

\* C13: the commit of a logout leaves the session of its token inactive
\* (deleted, when another request has deleted it meanwhile), the step that
\* follows answers the logout with success, that session stays dead, and
\* every request received afterwards with the token is answered 401.
C13_LogoutRevokesToken ==
    [][/\ \A p \in Procs :
             (pc[p] = "logout_found" /\ req[p].op = "logout"
                /\ pc'[p] = "logged_out")
             => LET sid == req[p].token.session_id IN
                IF sid \in DOMAIN sessions
                THEN sid \in DOMAIN sessions' /\ ~sessions'[sid].is_active
                ELSE sid \notin DOMAIN sessions'
       /\ \A p \in Procs :
             (pc[p] = "logged_out" /\ Moves(p))
             => /\ resp'[p] = Resp(200, "Deconnecte", 0)
                /\ DeadNext(req[p].token.session_id)
       /\ \A t \in tokens : TokenDead(t) => TokenDead(t)'
       /\ \A p \in Procs : DeadTokenRefused(p)]_vars

\* the only session there is was closed by a logout, and a later request
\* with its token was answered 401
C13_Witness ==
    /\ DOMAIN sessions = {1}
    /\ ~sessions[1].is_active
    /\ sessions[1].expires_at > now
    /\ ActivityLog(ADMIN, "LOGOUT", "", 0) \in activity_log
    /\ \A a \in activity_log : a.action_type # "FORCE_DISCONNECT"
    /\ pc[Client] = "done"
    /\ req[Client].token = Token(ADMIN, 1, sessions[1].expires_at)
    /\ resp[Client] = Resp(401, InvalidToken, 0)

\* C14: the step that answers a refresh with success leaves the session of
\* the old token dead and the session of the new token active and
\* unexpired; a request received with a dead token is answered 401, and one
\* received with a well-signed token of a live session passes the lookup.
C14_RefreshSwapsTokens ==
    [][/\ \A p \in Procs :
             (pc[p] = "refresh_logged_out" /\ pc'[p] = "done")
             => /\ resp'[p].status = 200
                /\ DeadNext(req[p].token.session_id)
                /\ ~DeadNext(resp'[p].detail[2])
                /\ resp'[p].detail[2] # req[p].token.session_id
                /\ \E t \in tokens' \ tokens :
                      t.session_id = resp'[p].detail[2]
       /\ \A p \in Procs :
             /\ DeadTokenRefused(p)
             /\ (Free(p) /\ Moves(p) /\ req'[p].hdr /\ req'[p].token.sig
                   /\ ~TokenDead(req'[p].token))
                => pc'[p] = "val_found"]_vars

\* a refresh has replaced session 1 by session 2; the old token was then
\* refused
C14_Witness ==
    /\ DOMAIN sessions = {1, 2}
    /\ ~sessions[1].is_active
    /\ sessions[2].is_active
    /\ sessions[2].expires_at > now
    /\ \A a \in activity_log : a.action_type \notin {"LOGOUT", "FORCE_DISCONNECT"}
    /\ Cardinality({a \in activity_log : a.action_type = "LOGIN"}) = 1
    /\ pc[Client] = "done"
    /\ req[Client].token.session_id = 1
    /\ req[Client].token.sig
    /\ resp[Client] = Resp(401, InvalidToken, 0)

PermissionDenied == Resp(403, "Permission '{}' requise", 0)

\* the capability that guards each mutating route
RouteCapability(op) ==
    CASE op \in {"create_chauffeur", "update_chauffeur", "delete_chauffeur"}
           -> "manage_drivers"
      [] op \in {"create_voyage", "update_voyage", "delete_voyage"}
           -> "manage_voyages"
      [] op \in {"create_sst", "update_sst", "delete_sst",
                 "create_tarif", "update_tarif", "delete_tarif",
                 "create_revenu_palette", "update_revenu_palette",
                 "delete_revenu_palette",
                 "create_sst_email", "delete_sst_email"}
           -> "manage_finance"
      [] op \in {"create_mission", "update_mission", "delete_mission",
                 "create_missions_bulk"}
           -> "edit_planning"
      [] op \in {"create_disponibilite", "delete_disponibilite"}
           -> "edit_driver_planning"

\* C15: a mutating request of an active user whose effective permissions
\* lack the capability of the route is, unless the client has dropped the
\* connection, answered 403 in the step that ends its authentication, and
\* that step changes neither the tables nor the
\* audit log nor what was published; a request answered so has no commit,
\* no audit row and no envelope.
C15_DeniedRequestLeavesNothing ==
    [][\A p \in Procs :
          /\ (/\ pc[p] = "val_committed"
              /\ pc'[p] # "val_committed"
              /\ resp'[p] # Resp(0, "cancelled", 0)
              /\ req[p].op \in MutatingOps
              /\ users[req[p].token.sub].is_active
              /\ RouteCapability(req[p].op)
                    \notin get_user_permissions(users[req[p].token.sub]))
             => /\ pc'[p] = "done"
                /\ resp'[p] = PermissionDenied
                /\ UNCHANGED <<tables, commits, activity_log, published, inbox>>
          /\ (pc[p] = "done" /\ resp[p] = PermissionDenied /\ req[p].rid > 0)
             => /\ ~Committed(req[p].rid)
                /\ ~Audited(req[p].rid)
                /\ ~Published(req[p].rid)]_vars

\* the viewer's POST /chauffeurs was answered 403 and has left nothing
C15_Witness ==
    \E p \in Procs :
        /\ pc[p] = "done"
        /\ req[p].token = ViewerToken
        /\ req[p].rid > 0
        /\ resp[p] = PermissionDenied
        /\ ~Committed(req[p].rid)
        /\ ~Audited(req[p].rid)
        /\ tables["chauffeur"] = <<>>

\* client c has received the data_changed envelope of request rid
Received(c, rid) ==
    \E i \in 1..Len(inbox[c]) :
        inbox[c][i].type = "data_changed" /\ inbox[c][i].rid = rid

\* handler p ends its broadcast in this step
EndsBroadcast(p) == pc[p] = "broadcast" /\ pc'[p] = "done" /\ HoldsLock(p)

\* C17: when a broadcast ends in which the write to some client failed,
\* the clients whose write failed are no longer registered, and every
\* client that remains registered has received the envelope.
C17_FailedClientEvicted ==
    [][\A p \in Procs :
          (EndsBroadcast(p) /\ resp'[p].status \in {200, 201}
             /\ snap[p].disconnected # {})
          => /\ \A k \in 1..Len(hub_clients') :
                   /\ hub_clients'[k].client_id \notin snap[p].disconnected
                   /\ Received(hub_clients'[k].client_id, req[p].rid)
             /\ \A c \in snap[p].disconnected : channel[c] = "closed"]_vars

\* the first client's websocket was closed, a broadcast has removed it, and
\* the second client has received the envelope of that broadcast
C17_Witness ==
    /\ Len(hub_clients) = 1
    /\ hub_clients[1].client_id = 2
    /\ channel[1] = "closed"
    /\ inbox[1] = <<>>
    /\ hub_lock = <<>>
    /\ Len(published) = 1
    /\ Received(2, published[1].rid)

\* C18: when the broadcast of a data_changed envelope ends, every client of
\* the registry whose write did not fail has received the envelope, the
\* clients of the user who made the change included.
C18_DeliveredToAllIncludingOriginator ==
    [][\A p \in Procs :
          (EndsBroadcast(p) /\ resp'[p].status \in {200, 201})
          => \A k \in 1..Len(hub_clients) :
                hub_clients[k].client_id \notin snap[p].disconnected
                => Received(hub_clients[k].client_id, req[p].rid)]_vars

\* a change made by ADMIN has been delivered to both clients, one of which
\* is ADMIN's own
C18_Witness ==
    /\ Len(hub_clients) = 2
    /\ hub_clients[2].username = ADMIN
    /\ \E i \in 1..Len(published) :
          /\ published[i].changed_by = ADMIN
          /\ Received(1, published[i].rid)
          /\ Received(2, published[i].rid)
          /\ \E p \in Procs :
                pc[p] = "done" /\ req[p].rid = published[i].rid
                   /\ resp[p].status = 201

\* connection w is in the registry under username u
RegisteredAs(w, u) ==
    /\ ws[w].client_id # 0
    /\ IsRegistered(ws[w].client_id)
    /\ ws[w].username = u

\* C12: a client that is in the registry under USER1 when the handler of
\* POST /admin/sessions/disconnect/USER1 runs is eventually out of the
\* registry.
C12_ForceDisconnectClosesChannels ==
    \A w \in WsConns :
       (pc[Console] = "authed" /\ req[Console].op = "force_disconnect"
           /\ RegisteredAs(w, USER1))
       ~> ~RegisteredAs(w, USER1)

\* C16: a connection enters the registry only with a token that is signed,
\* not expired and of a session still active, and a connection that is
\* refused is closed with 4001 for an expired token and 4002 otherwise.
C16_RegistryOnlyValidatedTokens ==
    [][\A w \in WsConns :
          /\ (ws[w].pc = "registering" /\ ws'[w].pc = "announcing")
             => /\ ws[w].hdr
                /\ ws[w].token.sig
                /\ ws[w].token.exp > now
                /\ SessionValid(ws[w].token)
          /\ (ws[w].pc = "closed" /\ ws'[w].pc = "refused")
             => ws'[w].close_code =
                   IF ws'[w].token.sig /\ ws'[w].token.exp <= now
                   THEN 4001 ELSE 4002]_vars

UserEventTypes == {"user_connected", "user_disconnected"}

\* client c has received the event of this type about client origin
ReceivedEvent(c, type, origin) ==
    \E i \in 1..Len(inbox[c]) :
       inbox[c][i].type = type /\ inbox[c][i].entity_id = origin

\* C19: no client ever holds a user_connected or user_disconnected event
\* about itself, and when the broadcast of such an event ends, every client
\* in the registry other than the one it is about, whose channel took the
\* write, holds it.
C19_UserEventsSkipOrigin ==
    [][/\ \A c \in DOMAIN inbox' : \A i \in 1..Len(inbox'[c]) :
             inbox'[c][i].type \in UserEventTypes
             => inbox'[c][i].entity_id # c
       /\ \A w \in WsConns :
             (/\ ws[w].pc \in {"announcing", "farewell"}
              /\ ws'[w].pc \in {"listing_users", "gone"})
             => \A k \in 1..Len(hub_clients) :
                   LET c == hub_clients[k].client_id IN
                   (c # ws[w].client_id /\ c \notin ws[w].disconnected)
                   => ReceivedEvent(c, IF ws[w].pc = "announcing"
                                       THEN "user_connected"
                                       ELSE "user_disconnected",
                                    ws[w].client_id)]_vars

\* two clients are attached: the first holds the user_connected of the
\* second, the second does not hold it; the first has then gone and the
\* second holds its user_disconnected
C19_Witness ==
    \E v, w \in WsConns :
       /\ ws[v].pc = "gone"
       /\ ws[w].pc = "open"
       /\ ws[v].client_id # 0
       /\ ReceivedEvent(ws[v].client_id, "user_connected", ws[w].client_id)
       /\ ~ReceivedEvent(ws[w].client_id, "user_connected", ws[w].client_id)
       /\ ReceivedEvent(ws[w].client_id, "user_disconnected", ws[v].client_id)
       /\ ~ReceivedEvent(ws[v].client_id, "user_disconnected", ws[v].client_id)

LockingMessage == "Compte verrouille pour {} minutes."

\* handler p, whose login has found the lock elapsed and has cleared it,
\* goes on with the password of the account
LoginAfterLock(p) ==
    /\ pc[p] = "auth_unlocked"
    /\ Moves(p)
    /\ verify_password(req[p].password, snap[p].user.password_hash)

\* C21 as stated: a login that finds the lock elapsed and supplies the
\* password of the account succeeds: it creates its session, and the
\* account is then stored with failed_login_attempts 0 and no locked_until.
C21_AsStated ==
    [][\A p \in Procs :
          LoginAfterLock(p)
          => (/\ pc'[p] = "session_created"
              /\ users'[snap[p].user.username].failed_login_attempts = 0
              /\ users'[snap[p].user.username].locked_until = NoTime)]_vars

\* C21: a login that finds the lock elapsed clears it and, with the
\* password of the account, creates its session and is answered 200; the
\* account is then stored with failed_login_attempts 0 and no locked_until
\* when no other login has written it since this one loaded it.
C21_LoginAfterLockSucceeds ==
    [][\A p \in Procs :
          /\ (/\ pc[p] = "auth_loaded" /\ Moves(p)
              /\ snap[p].user.is_active
              /\ snap[p].user.locked_until # NoTime
              /\ snap[p].user.locked_until <= now)
             => LET u == snap[p].user.username IN
                /\ pc'[p] = "auth_unlocked"
                /\ users[u] = snap[p].user
                   => /\ users'[u].locked_until = NoTime
                      /\ users'[u].failed_login_attempts = 0
          /\ LoginAfterLock(p)
             => LET u == snap[p].user.username IN
                /\ pc'[p] = "session_created"
                /\ users[u] = snap[p].user
                   => /\ users'[u].failed_login_attempts = 0
                      /\ users'[u].locked_until = NoTime
          /\ (pc[p] = "session_created" /\ Moves(p))
             => resp'[p].status = 200]_vars

\* the fifth wrong password locked USER1 at 0 until 15, and at 15 a login
\* with the correct password was answered 200 and cleared the lock
C21_Witness ==
    \E p, q \in Procs :
        /\ resp[q] = Resp(401, LockingMessage, LOCKOUT_DURATION_MINUTES)
        /\ pc[p] = "done"
        /\ req[p].password = GoodPassword
        /\ resp[p].status = 200
        /\ now = LOCKOUT_DURATION_MINUTES
        /\ users[USER1].failed_login_attempts = 0
        /\ users[USER1].locked_until = NoTime

IncorrectMessage == "Mot de passe incorrect. {} tentative(s) restante(s)."

\* handler p, whose login is for an active account that it does not find
\* locked, verifies a wrong password
WrongPasswordLogin(p) ==
    /\ pc[p] \in {"auth_loaded", "auth_unlocked"}
    /\ pc'[p] = "login_failed"
    /\ ~verify_password(req[p].password, snap[p].user.password_hash)

\* the failed attempts that count when handler p verifies the password
\* (none after it has cleared a lock that had elapsed)
AttemptsBefore(p) == snap[p].user.failed_login_attempts

\* C22 as stated: the wrong-password login made after k earlier failed
\* attempts, k = 0..4, is answered 401 with "X tentative(s) restante(s)",
\* X = 4 - k.
C22_AsStated ==
    [][\A p \in Procs :
          /\ (WrongPasswordLogin(p) /\ AttemptsBefore(p) < MAX_FAILED_ATTEMPTS)
             => snap'[p].detail = <<IncorrectMessage,
                                    MAX_FAILED_ATTEMPTS - 1 - AttemptsBefore(p)>>
          /\ (pc[p] = "login_failed" /\ Moves(p))
             => resp'[p] = Resp(401, snap[p].detail[1], snap[p].detail[2])]_vars

\* C22: the wrong-password login made after k earlier failed attempts is
\* answered 401 with "X tentative(s) restante(s)", X = 4 - k, for k = 0..3,
\* and with "Compte verrouille pour 15 minutes." for k = 4; it raises the
\* stored counter to k + 1 when no other login has written it meanwhile.
C22_RemainingAttemptsCountDown ==
    [][\A p \in Procs :
          /\ (WrongPasswordLogin(p) /\ AttemptsBefore(p) < MAX_FAILED_ATTEMPTS)
             => LET k == AttemptsBefore(p)
                    u == snap[p].user.username
                IN
                /\ snap'[p].detail = IF k < MAX_FAILED_ATTEMPTS - 1
                                     THEN <<IncorrectMessage,
                                            MAX_FAILED_ATTEMPTS - 1 - k>>
                                     ELSE <<LockingMessage,
                                            LOCKOUT_DURATION_MINUTES>>
                /\ (users[u].failed_login_attempts
                       = snap[p].user.failed_login_attempts)
                   => users'[u].failed_login_attempts = k + 1
          /\ (pc[p] = "login_failed" /\ Moves(p))
             => resp'[p] = Resp(401, snap[p].detail[1], snap[p].detail[2])]_vars

\* the fifth wrong password in a row was answered with the lock message,
\* the one before it with "1 tentative(s) restante(s)"
C22_Witness ==
    \E p, q \in Procs :
        /\ resp[p] = Resp(401, LockingMessage, LOCKOUT_DURATION_MINUTES)
        /\ resp[q] = Resp(401, IncorrectMessage, 1)
        /\ users[USER1].failed_login_attempts = MAX_FAILED_ATTEMPTS
        /\ users[USER1].locked_until = now + LOCKOUT_DURATION_MINUTES
        /\ DOMAIN sessions = {}

\* the answer to a login with a username that does not exist
AuthFailed == Resp(401, "Identifiants invalides", 0)

\* C23: a login with a wrong password gets the answer that a login with a
\* username that does not exist gets, whatever the state of the account.
C23_LoginFailuresAlike ==
    [][\A p \in Procs :
          (/\ Moves(p)
           /\ pc'[p] = "done"
           /\ req'[p].password = WrongPassword)
          => resp'[p] = AuthFailed]_vars

\* C24: GET /auth/me answers with every capability for a user whose
\* is_system_admin is set, whatever the role, and with exactly the
\* capabilities of the user's role otherwise.
C24_EffectivePermissions ==
    [][\A p \in Procs :
          (/\ pc[p] = "val_committed"
           /\ req[p].op = "me"
           /\ resp'[p].status = 200)
          => LET user == users[normalize_username(req[p].token.sub)] IN
             resp'[p].body.permissions =
                IF user.is_system_admin THEN Capabilities
                ELSE { c \in Capabilities : c \in SeedRoles[user.role] }]_vars

\* USER1 holds the role finance and the privilege is_system_admin, and its
\* GET /auth/me was answered with the capability admin_access, which the
\* role does not have
C24_Witness ==
    /\ users[USER1].role = "finance"
    /\ users[USER1].is_system_admin
    /\ pc[Client] = "done"
    /\ resp[Client].status = 200
    /\ "admin_access" \in resp[Client].body.permissions
    /\ "admin_access" \notin SeedRoles["finance"]

\* the seed role matrix: viewer; planner adds to viewer; planner_advanced
\* adds to planner; driver_admin, finance and analyse add to viewer; admin
\* has every capability
MatrixViewer == {"view_planning", "view_drivers"}
MatrixPlanner ==
    MatrixViewer \cup {"edit_planning", "manage_voyages", "send_announcements"}
SeedRoleMatrix ==
    [viewer |-> MatrixViewer,
     planner |-> MatrixPlanner,
     planner_advanced |->
         MatrixPlanner \cup {"edit_past_planning", "edit_past_planning_advanced",
                             "view_finance", "manage_announcements_config"},
     driver_admin |-> MatrixViewer \cup {"manage_drivers", "edit_driver_planning"},
     finance |-> MatrixViewer \cup {"view_finance", "manage_finance"},
     analyse |-> MatrixViewer \cup {"view_drivers", "view_finance", "view_analyse"},
     admin |-> Capabilities]

\* C25: the roles created by init_default_roles are the seven of the seed
\* role matrix, and a user without is_system_admin who holds one of them is
\* answered by GET /auth/me with exactly the capabilities the matrix gives
\* the role.
C25_SeedRolesMatchMatrix ==
    [][/\ DOMAIN SeedRoles = DOMAIN SeedRoleMatrix
       /\ \A p \in Procs :
             (/\ pc[p] = "val_committed"
              /\ req[p].op = "me"
              /\ resp'[p].status = 200
              /\ ~users[normalize_username(req[p].token.sub)].is_system_admin)
             => resp'[p].body.permissions =
                   SeedRoleMatrix[users[normalize_username(req[p].token.sub)].role]
      ]_vars

\* USER1 holds the role finance without is_system_admin, and its GET
\* /auth/me was answered with view_finance, manage_finance, view_planning
\* and view_drivers
C25_Witness ==
    /\ users[USER1].role = "finance"
    /\ ~users[USER1].is_system_admin
    /\ pc[Client] = "done"
    /\ resp[Client].status = 200
    /\ resp[Client].body.permissions =
          {"view_planning", "view_drivers", "view_finance", "manage_finance"}

\* the step of POST /auth/change-password that decides
ChangePasswordAnswers(p) ==
    /\ pc[p] = "authed"
    /\ req[p].op = "change_password"
    /\ Moves(p)

\* the strength policy: eight characters or more, with an upper-case letter,
\* a lower-case letter and a digit among them
MeetsPolicy(password) ==
    /\ Len(password) >= 8
    /\ \E i \in 1..Len(password) : isupper(password[i])
    /\ \E i \in 1..Len(password) : islower(password[i])
    /\ \E i \in 1..Len(password) : isdigit(password[i])

\* C26: POST /auth/change-password replaces the stored hash only when the
\* current password verifies against it, the new password meets the
\* strength policy and the new password differs from the current one, and
\* then must_change_password becomes false; in every other case the answer
\* is 400 and password_hash and must_change_password stay as they are.
C26_AsStated ==
    [][\A p \in Procs :
          ChangePasswordAnswers(p)
             => LET u == snap[p].user.username
                    accepted ==
                       /\ verify_password(req[p].password, users[u].password_hash)
                       /\ MeetsPolicy(req[p].new_password)
                       /\ req[p].new_password # req[p].password
                IN IF accepted
                   THEN /\ pc'[p] = "password_changed"
                        /\ users'[u].password_hash =
                              hash_password(req[p].new_password)
                        /\ ~users'[u].must_change_password
                   ELSE /\ pc'[p] = "done"
                        /\ resp'[p].status = 400
                        /\ users'[u].password_hash = users[u].password_hash
                        /\ users'[u].must_change_password =
                              users[u].must_change_password]_vars

\* what change_password does: the three tests are made on the user object
\* the request loaded when it was authenticated, so the statement above
\* holds with the loaded hash in the place of the stored one, and the step
\* that follows an accepted change answers 200
ChangePasswordGuards ==
    [][\A p \in Procs :
          /\ ChangePasswordAnswers(p)
             => LET u == snap[p].user.username
                    accepted ==
                       /\ verify_password(req[p].password, snap[p].user.password_hash)
                       /\ MeetsPolicy(req[p].new_password)
                       /\ req[p].new_password # req[p].password
                IN IF accepted
                   THEN /\ pc'[p] = "password_changed"
                        /\ users'[u].password_hash =
                              hash_password(req[p].new_password)
                        /\ ~users'[u].must_change_password
                   ELSE /\ pc'[p] = "done"
                        /\ resp'[p].status = 400
                        /\ users'[u].password_hash = users[u].password_hash
                        /\ users'[u].must_change_password =
                              users[u].must_change_password
          /\ (pc[p] = "password_changed" /\ Moves(p))
             => /\ resp'[p].status = 200
                /\ users' = users]_vars

\* one request has changed the password of USER1 and cleared
\* must_change_password, another one was refused with 400
ChangePasswordSeen ==
    /\ users[USER1].password_hash = hash_password(NewPassword)
    /\ ~users[USER1].must_change_password
    /\ \E p, q \in Procs :
          /\ resp[p] = Resp(200, "Mot de passe modifie avec succes", 0)
          /\ resp[q].status = 400

\* the commit of a DELETE on a route, a driver or a subcontractor
DeactivationCommits(p) ==
    /\ pc[p] = "loaded"
    /\ req[p].op \in {"delete_voyage", "delete_chauffeur", "delete_sst"}
    /\ pc'[p] = "committed"

\* a mission refers to row id of the table kind
RefersTo(mission, kind, id) ==
    \/ kind = "voyage" /\ mission.data.voyage_id = id
    \/ kind = "chauffeur" /\ mission.data.chauffeur_id = id
    \/ kind = "sst" /\ mission.data.sst_id = id

\* the step in which a listing is answered
ListAnswers(p, op) ==
    /\ pc[p] = "authed"
    /\ req[p].op = op
    /\ resp'[p].status = 200

\* C27: DELETE on a route, a driver or a subcontractor sets is_active to
\* false and deletes nothing: the row is still there with its code, no
\* other row and no other table changes, so that the missions keep their
\* references; GET /missions returns every mission that passes its filters,
\* whatever the state of the rows it refers to; a listing with
\* active_only=true has no deactivated row.
C27_DeleteOnlyDeactivates ==
    [][\A p \in Procs :
          /\ DeactivationCommits(p)
             => LET kind == Kind(req[p].op)
                    id == snap[p].entity_id
                IN /\ DOMAIN tables'[kind] = DOMAIN tables[kind]
                   /\ ~tables'[kind][id].is_active
                   /\ tables'[kind][id].code = tables[kind][id].code
                   /\ tables'[kind][id].data = tables[kind][id].data
                   /\ \A k \in Kinds : \A i \in DOMAIN tables[k] :
                         <<k, i>> # <<kind, id>> => tables'[k][i] = tables[k][i]
                   /\ \A m \in DOMAIN tables["mission"] :
                         RefersTo(tables["mission"][m], kind, id)
                         => RefersTo(tables'["mission"][m], kind, id)
          /\ ListAnswers(p, "list_missions")
             => \A m \in DOMAIN tables["mission"] :
                   (req[p].data.voyage_id \in {0, tables["mission"][m].data.voyage_id})
                   => m \in resp'[p].body.items
          /\ \A op \in {"list_voyages", "list_chauffeurs", "list_sst"} :
                (ListAnswers(p, op) /\ req[p].active_only)
                => \A i \in DOMAIN tables[Kind(op)] :
                      i \in resp'[p].body.items <=> tables[Kind(op)][i].is_active]_vars

\* the route and a driver are deactivated, and the listing of the missions
\* has the three missions, two of which refer to them
C27_Witness ==
    /\ ~tables["voyage"][1].is_active
    /\ \E c \in DOMAIN tables["chauffeur"] : ~tables["chauffeur"][c].is_active
    /\ tables["mission"][1].data.voyage_id = 1
    /\ resp[Client].detail = <<"list", 0>>
    /\ resp[Client].body.items = {1, 2, 3}

\* the step in which GET /chauffeurs/disponibles/{check_date} is answered
DisponiblesAnswers(p) ==
    /\ pc[p] = "selected"
    /\ pc'[p] = "done"

\* C28: GET /chauffeurs/disponibles/D answers two disjoint lists whose
\* union is the active drivers (the drivers that were active when the
\* handler selected them); a driver is in indisponibles exactly when an
\* unavailability of that driver has date_debut <= D <= date_fin.
C28_DisponiblesPartition ==
    [][\A p \in Procs :
          /\ (pc[p] = "authed" /\ req[p].op = "get_chauffeurs_disponibles"
              /\ pc'[p] = "selected")
             => snap'[p].rows =
                   { c \in DOMAIN tables["chauffeur"] :
                        tables["chauffeur"][c].is_active }
          /\ DisponiblesAnswers(p)
             => LET disponibles == resp'[p].body.disponibles
                    indisponibles == resp'[p].body.indisponibles
                    D == req[p].check_date
                IN /\ resp'[p].status = 200
                   /\ disponibles \cap indisponibles = {}
                   /\ disponibles \cup indisponibles = snap[p].rows
                   /\ \A c \in snap[p].rows :
                         c \in indisponibles
                         <=> \E d \in DOMAIN tables["dispo"] :
                                /\ tables["dispo"][d].data.chauffeur_id = c
                                /\ tables["dispo"][d].data.debut <= D
                                /\ D <= tables["dispo"][d].data.fin]_vars

\* on the first day of the unavailability of driver 1, the answer has
\* driver 1 in indisponibles and driver 2 in disponibles
C28_Witness ==
    /\ resp[Client].detail = <<"disponibles", 0>>
    /\ resp[Client].body.indisponibles = {1}
    /\ resp[Client].body.disponibles = {2}
    /\ \A d \in DOMAIN tables["dispo"] : tables["dispo"][d].data.debut >= 2

\* C29: every stored mission has nb_palettes >= 0 and, when heure_debut and
\* heure_fin are both set, heure_debut <= heure_fin, whatever create_mission,
\* create_missions_bulk and update_mission have done.
C29_MissionsWellFormed ==
    \A m \in DOMAIN tables["mission"] :
       LET data == tables["mission"][m].data IN
       /\ data.nb_palettes >= 0
       /\ (data.debut # NoTime /\ data.fin # NoTime) => data.debut <= data.fin

\* C30: every stored unavailability has date_debut <= date_fin.
C30_DisposOrdered ==
    \A d \in DOMAIN tables["dispo"] :
       tables["dispo"][d].data.debut <= tables["dispo"][d].data.fin

\* C31: in every reachable state the voyage_id, chauffeur_id and sst_id of a
\* mission, when not NULL, are the id of a row of voyages, chauffeurs and
\* sst.
C31_MissionReferencesExist ==
    \A m \in DOMAIN tables["mission"] :
       LET data == tables["mission"][m].data IN
       /\ data.voyage_id # 0 => data.voyage_id \in DOMAIN tables["voyage"]
       /\ data.chauffeur_id # 0 => data.chauffeur_id \in DOMAIN tables["chauffeur"]
       /\ data.sst_id # 0 => data.sst_id \in DOMAIN tables["sst"]

\* handler p's login succeeds: authenticate commits its session
LoginSucceeds(p) ==
    /\ pc[p] \in {"auth_loaded", "auth_unlocked", "auth_reset"}
    /\ pc'[p] = "session_created"

\* C35: the step in which a login succeeds leaves the user's row with
\* failed_login_attempts 0 and no locked_until, and adds exactly one
\* session, active, of that user, with expires_at = now + the token
\* lifetime, whatever the other logins for the user are doing.
C35_LoginResetsAndOpensOneSession ==
    [][\A p \in Procs :
          LoginSucceeds(p)
          => LET u == snap[p].user.username IN
             /\ users'[u].failed_login_attempts = 0
             /\ users'[u].locked_until = NoTime
             /\ \E s \in DOMAIN sessions' :
                   /\ s \notin DOMAIN sessions
                   /\ DOMAIN sessions' = DOMAIN sessions \cup {s}
                   /\ sessions'[s].user = u
                   /\ sessions'[s].is_active
                   /\ sessions'[s].expires_at
                         = now + access_token_expire_minutes]_vars

\* C36: no failed attempt is lost: every wrong-password verification on an
\* account that carries no lock raises the stored failed_login_attempts by
\* one, whatever the other logins for the user are doing.
C36_NoFailedAttemptLost ==
    [][\A p \in Procs :
          (WrongPasswordLogin(p) /\ snap[p].user.locked_until = NoTime)
          => LET u == snap[p].user.username IN
             users'[u].failed_login_attempts
                = users[u].failed_login_attempts + 1]_vars

\* validate_token accepts the token at time t: its signature and exp pass
\* jwt.decode and its session is found active and not expired
AcceptedIn(token, sess, t) ==
    /\ jwt_decode_ok(token, t)
    /\ \E s \in DOMAIN sess :
          s = token.session_id /\ sess[s].is_active /\ sess[s].expires_at > t

\* C38: from the moment POST /auth/refresh has invalidated the old session,
\* the token it was called with is not accepted, and when the new session
\* comes into existence the old token is refused while the new one is
\* accepted: the two are never accepted together.
C38_OldAndNewNeverBothAccepted ==
    [][\A p \in Procs :
         /\ pc'[p] = "refresh_logged_out"
              => ~AcceptedIn(req'[p].token, sessions', now')
         /\ (pc[p] = "refresh_logged_out" /\ resp'[p].status = 200)
              => /\ ~AcceptedIn(req[p].token, sessions', now')
                 /\ \E t \in tokens' \ tokens :
                       /\ t.session_id \notin DOMAIN sessions
                       /\ AcceptedIn(t, sessions', now')]_vars

\* POST /auth/refresh has been answered 200: the request carried a token
\* (a login carries none), that token is refused now, and the token of the
\* session named in the answer is another one and is accepted
C38_Witness ==
    \E p \in Procs :
       /\ pc[p] = "done"
       /\ resp[p].status = 200
       /\ resp[p].detail[1] = "access_token"
       /\ req[p].token \in tokens
       /\ ~AcceptedIn(req[p].token, sessions, now)
       /\ \E t \in tokens : /\ t.session_id = resp[p].detail[2]
                              /\ t # req[p].token
                              /\ AcceptedIn(t, sessions, now)


\* C39: PUT /admin/users/{id} whose body carries is_system_admin, sent by a
\* user who is not a system administrator, is answered 403 and the stored
\* users are what they were: is_active, role and is_system_admin of the
\* target keep their values.
C39_ForbiddenUpdatePersistsNothing ==
    [][\A p \in Procs :
         (/\ pc[p] = "authed" /\ pc'[p] = "done"
          /\ req[p].op = "update_user"
          /\ req[p].target \in DOMAIN users
          /\ req[p].is_system_admin # ""
          /\ ~snap[p].user.is_system_admin)
         => /\ resp'[p].status = 403
            /\ users' = users]_vars

\* such a request, which also asked for another is_active than the stored
\* one, has been answered 403
C39_Witness ==
    \E p \in Procs :
       /\ pc[p] = "done"
       /\ resp[p] = Resp(403, "Seul un admin systeme peut modifier ce privilege", 0)
       /\ \E u \in DOMAIN users : ~users[u].is_system_admin /\ users[u].role = "admin"


\* C40: POST /admin/sessions/kick-all answered 200 removes the sessions of
\* every other user and keeps those of the calling administrator, whose
\* token is accepted afterwards.
C40_KickAllSparesCaller ==
    [][\A p \in Procs :
         (pc[p] = "kick_all_found" /\ req[p].op = "kick_all_sessions"
          /\ resp'[p].status = 200)
         => LET caller == snap[p].user.username IN
            /\ \A s \in DOMAIN sessions :
                  sessions[s].user # caller => s \notin DOMAIN sessions'
            /\ \A s \in DOMAIN sessions :
                  sessions[s].user = caller
                     => s \in DOMAIN sessions' /\ sessions'[s] = sessions[s]
            /\ AcceptedIn(req[p].token, sessions', now')]_vars


\* connection w's task is inside connect, get_connected_users, broadcast or
\* disconnect, between asking for the registry lock and giving it back for
\* the last time
InHubOperation(w) ==
    ws[w].pc \in {"registering", "announcing", "listing_users",
                  "sending_users", "welcome_users", "asked_users",
                  "messaging", "leaving", "farewell"}

\* no task is queued for the registry lock while it holds or already awaits it
NoTaskLocksTwice ==
    \A i, j \in 1..Len(hub_lock) : hub_lock[i] = hub_lock[j] => i = j

\* the steps that connection w's task has left, at most, before its hub
\* operation is over (the registry never holds more than MaxConnections
\* clients)
WorkLeft(w) ==
    CASE ws[w].pc = "registering"   -> MaxConnections + 5
      [] ws[w].pc = "announcing"    -> (MaxConnections - ws[w].cursor) + 5
      [] ws[w].pc = "listing_users" -> 3
      [] ws[w].pc = "sending_users" -> 2
      [] ws[w].pc = "welcome_users" -> 1
      [] ws[w].pc = "asked_users"   -> 1
      [] ws[w].pc = "messaging"     -> (MaxConnections - ws[w].cursor) + 2
      [] ws[w].pc = "leaving"       -> MaxConnections + 2
      [] ws[w].pc = "farewell"      -> (MaxConnections - ws[w].cursor) + 2
      [] OTHER -> 0

RECURSIVE HubWork(_)
HubWork(n) == IF n = 0 THEN 0 ELSE WorkLeft(n) + HubWork(n - 1)

\* C37: connect (with its broadcast, get_connected_users and send_to_client),
\* the get_connected_users and the broadcast of the receive loop, and
\* disconnect never ask for the registry lock while they hold it; while
\* one of them is under way, the channel writes all returning, a step of
\* some hub operation can be taken, and every such step brings the
\* operations nearer to their end: each of them completes.
C37_HubOperationsComplete ==
    /\ [](NoTaskLocksTwice
          /\ ((\E w \in WsConns : InHubOperation(w)) => ENABLED WsHubSteps))
    /\ [][WsHubSteps => (HubWork(MaxConnections)' < HubWork(MaxConnections)
                          /\ HubWork(MaxConnections)' >= 0)]_vars

\* the same as a property of the behaviours in which the event loop runs
\* every task that can take a step
HubOperationsTerminate ==
    \A w \in WsConns : InHubOperation(w) ~> ~InHubOperation(w)

\* a disconnect announces the departure under the lock while the connect
\* of another client waits for it
C37_Witness ==
    \E w, v \in WsConns :
       /\ ws[w].pc = "farewell"
       /\ InHubOperation(v)
       /\ hub_lock = <<LockId(w), LockId(v)>>

\* the backup_*.db files whose name carries the date of day d
SnapshotsOfDay(d) ==
    { n \in DOMAIN files : n[1] = "backup" /\ day_of(n[2]) = d }

\* C32: on every day on which the loop has run through the backup hour, it
\* has created exactly one automatic snapshot.
C32_OneSnapshotPerDay ==
    \A d \in 0..(MaxDays - 1) :
       wall >= d * Day + (auto_backup_hour + 1) * Hour
          => Cardinality(SnapshotsOfDay(d)) = 1

\* C33: every session whose expires_at has passed is eventually marked
\* is_active = false by the background loop.
C33_ExpiredSessionsSwept ==
    \A s \in 1..MaxSessions :
       (s \in DOMAIN sessions /\ sessions[s].expires_at <= now)
          ~> (s \in DOMAIN sessions /\ ~sessions[s].is_active)

\* C34: a restore of a file that exists leaves a pre_restore_* file
\* holding the live database as it was, is then answered 200, and the live
\* database holds what the file held when the restore was asked for (and
\* the handler's activity_log row); a restore of a file that does not
\* exist is answered 404 and changes neither the directory nor the live
\* database.
C34_RestoreKeepsSafetyCopy ==
    [][\A p \in Procs :
       /\ (pc[p] = "restored" /\ Moves(p)) => resp'[p].status = 200
       /\
         (/\ pc[p] = "authed" /\ Moves(p)
          /\ req[p].op = "restore_backup"
          /\ snap[p].user.is_system_admin)
         => IF req[p].filename \in DOMAIN files
            THEN LET snapshot == files[req[p].filename].content IN
                 /\ pc'[p] = "restored"
                 /\ \E n \in DOMAIN files' :
                       n[1] = "pre_restore" /\ files'[n].content = LiveDb
                 /\ users' = snapshot.users
                 /\ sessions' = snapshot.sessions
                 /\ tables' = snapshot.tables
                 /\ snapshot.activity_log \subseteq activity_log'
            ELSE /\ resp'[p].status = 404
                 /\ files' = files
                 /\ LiveDb' = LiveDb]_vars

====
